---- MODULE Spec2Model ----
(***************************************************************************)
(* FLVDemuxer (src/src/demux/flv-demuxer.js) as a state machine.           *)
(*                                                                         *)
(* A caller owns a byte stream `buf` and hands it to parseChunks piece by  *)
(* piece: each call passes the bytes received so far as `chunk`, the       *)
(* position byteStart at which the previous call stopped, and a new        *)
(* byteEnd.  The demuxer's fields live in the record `demuxer`, the        *)
(* consumer callbacks it invokes are appended to `trace`.  The chunk is a  *)
(* view on the caller's ArrayBuffer, whose bytes are `memory`: they are    *)
(* those of `buf` until the caller reuses the buffer.  `destroyed` tells   *)
(* whether destroy() has been called.                                      *)
(*                                                                         *)
(* The parsing functions that depend on their arguments alone (BitReader,  *)
(* _ebsp2rbsp, _parseSPS, the composition-time arithmetic) are also        *)
(* applied on their own, under SpecPure: `probe` holds the arguments of    *)
(* one call and, once the call is made, what it returned.                  *)
(*                                                                         *)
(* MSEController (src/unnamed/part_000), the sink of the media segments,   *)
(* is a state machine of its own, under SpecMse: `mse` holds its fields,   *)
(* the `updating` flag of its SourceBuffer and the last appendBuffer call. *)
(*                                                                         *)
(* Numbers: JavaScript int32 results are kept in their int32 range.        *)
(* Frame rates are kept in fixed point, 1/1000 frame per second.           *)
(***************************************************************************)
EXTENDS Integers, Sequences, FiniteSets, TLC

VARIABLES buf, origin, callbacks, demuxer, byteStart, byteEnd, ret, trace, clock, lastCall,
          memory, destroyed, probe, mse

vars == <<buf, origin, callbacks, demuxer, byteStart, byteEnd, ret, trace, clock, lastCall,
          memory, destroyed, probe, mse>>

\* the variables of a parsing session
session == <<buf, origin, callbacks, demuxer, byteStart, byteEnd, ret, trace, clock, lastCall,
             memory, destroyed>>

-----------------------------------------------------------------------------
(* Bounds of the model.                                                    *)

\* the caller submits at most MaxChunk new bytes per call, or all the rest
MaxChunk == 3

\* _parseVideoData is applied to MaxCt composition times at each end of the
\* 24-bit range and on each side of 2^23
MaxCt == 24

\* _parseSPS is applied to SPS with up to MaxCut bytes missing
MaxCut == 6

\* _ebsp2rbsp is applied to sequences of up to MaxEbsp bytes
MaxEbsp == 6

\* readUE is applied to codes of up to MaxZeros leading zero bits
MaxZeros == 34

\* MSEController receives up to MaxSegments media segments
MaxSegments == 3

\* readU is applied to data of up to MaxReadBytes bytes, with the cursor at
\* one of the first MaxReadPos + 1 bits
MaxReadBytes == 5

MaxReadPos == 9

\* performance.now() advances by 0 to MaxTick frame intervals between two reads
MaxTick == 1

-----------------------------------------------------------------------------
(* Values.                                                                 *)

\* JavaScript null / undefined in a numeric field
Null == -2000000000

\* JavaScript null in a string field
NullStr == "null"

\* DemuxErrors.FORMAT_ERROR (core/demuxer.js), the non-numeric return value
FORMAT_ERROR == "FormatError"

\* a typed-array view on the input buffer: new Uint8Array(buffer, offset, length)
NullView == [offset |-> Null, length |-> Null]

View(offset, length) == [offset |-> offset, length |-> length]

RECURSIVE Pow2(_)
Pow2(n) == IF n = 0 THEN 1 ELSE 2 * Pow2(n - 1)

\* data[i] of a Uint8Array: a byte, or undefined (-1) outside the array
ByteAt(data, i) == IF i >= 0 /\ i < Len(data) THEN data[i + 1] ELSE -1

\* ToInt32 of an array element: undefined becomes 0 under a bitwise operator
Bits(data, i) == IF i >= 0 /\ i < Len(data) THEN data[i + 1] ELSE 0

readUint8(data, o) == Bits(data, o)

readUint16(data, o) == Bits(data, o) * 256 + Bits(data, o + 1)

readUint24(data, o) == (Bits(data, o) * 256 + Bits(data, o + 1)) * 256 + Bits(data, o + 2)

readUint32(data, o) ==
    ((Bits(data, o) * 256 + Bits(data, o + 1)) * 256 + Bits(data, o + 2)) * 256
        + Bits(data, o + 3)

\* x << 24 for a byte x, as the int32 JavaScript produces
ShiftLeft24(x) == (IF x >= 128 THEN x - 256 ELSE x) * 16777216

\* a ^ b on int32 operands
RECURSIVE XorLow(_, _, _)
XorLow(a, b, n) ==
    IF n = 0 THEN 0
    ELSE (((a % 2) + (b % 2)) % 2) + 2 * XorLow(a \div 2, b \div 2, n - 1)

Xor32(a, b) ==
    LET low == XorLow(a, b, 31)
        sign == IF (a < 0) = (b < 0) THEN 0 ELSE 1
    IN  IF sign = 1 THEN (low - 2147483647) - 1 ELSE low

\* Math.round(n / d) for n >= 0, d > 0
RoundDiv(n, d) == (n \div d) + (IF (n % d) >= d - (n % d) THEN 1 ELSE 0)

\* Math.abs
Abs(x) == IF x < 0 THEN -x ELSE x

\* a decoded AMF value: null, number, boolean, string or object (ECMA array);
\* num is the integer part of a number, truthy its JavaScript truthiness
AmfValue(kind, num, truthy, str, props) ==
    [kind |-> kind, num |-> num, truthy |-> truthy, str |-> str, props |-> props]

AmfNull == AmfValue("null", 0, FALSE, <<>>, <<>>)

-----------------------------------------------------------------------------
(* Construction.                                                           *)

InitMediaInfo ==
    [ hasAudio |-> FALSE, hasVideo |-> FALSE,
      audioCodec |-> NullStr, videoCodec |-> NullStr,
      audioDataRate |-> Null, videoDataRate |-> Null,
      audioSampleRate |-> Null, audioChannelCount |-> Null,
      width |-> Null, height |-> Null, fps |-> Null,
      profile |-> Null, level |-> Null,
      chromaFormat |-> NullStr, bitDepth |-> Null,
      pix_fmt |-> NullStr, color_range |-> NullStr, color_space |-> NullStr,
      color_transfer |-> NullStr, color_primaries |-> NullStr,
      frame_rate |-> Null,
      sps |-> NullView, pps |-> NullView,
      matrix_coefficients |-> Null, transfer_characteristics |-> Null,
      color_primaries_raw |-> Null, video_format |-> Null,
      metadata |-> AmfNull,
      _lastReportedFrameRate |-> Null ]

InitDemuxer ==
    [ _hasAudio |-> FALSE, _hasVideo |-> FALSE, _hasKeyFrame |-> FALSE,
      _metadata |-> AmfNull,
      _audioInitialMetadataDispatched |-> FALSE,
      _videoInitialMetadataDispatched |-> FALSE,
      _firstParse |-> TRUE, _dispatchFlag |-> FALSE,
      _audioBytes |-> 0, _videoBytes |-> 0,
      _beginTime |-> Null, _endTime |-> Null,
      _mediaInfo |-> InitMediaInfo,
      _lastPTS |-> Null, _frameCount |-> 0,
      _frameRateSamples |-> <<>>, _lastFrameTime |-> Null ]

\* the running state of one parseChunks call: the demuxer's fields, the
\* callbacks invoked so far, the wall clock, and whether an exception is
\* propagating
Ctx(dm, cb, log, now) == [dm |-> dm, cb |-> cb, log |-> log, now |-> now, thrown |-> FALSE]

\* this.<name>(...): the call is recorded, and an exception propagates from it
\* when <name> is the callback of the consumer that throws
Invoke(c, name, event) ==
    [c EXCEPT !.log = Append(@, event), !.thrown = (c.cb.throws = name)]

-----------------------------------------------------------------------------
(* Media-info aggregation and statistics.                                  *)

\* a || b on numbers: b when a is null, undefined or 0
OrNum(a, b) == IF a = Null \/ a = 0 THEN b ELSE a

\* a || b on strings
OrStr(a, b) == IF a = NullStr \/ a = "" THEN b ELSE a

\* the record handed to onMediaInfo: a copy of _mediaInfo with the defaults
\* filled in and the internal property removed
EnhancedInfo(mi) ==
    [f \in (DOMAIN mi) \ {"_lastReportedFrameRate"} |->
        CASE f = "pix_fmt" -> OrStr(mi.pix_fmt, "yuv420p")
          [] f = "color_range" -> OrStr(mi.color_range, "limited")
          [] f = "color_space" -> OrStr(mi.color_space, "bt709")
          [] f = "color_transfer" -> OrStr(mi.color_transfer, "bt709")
          [] f = "color_primaries" -> OrStr(mi.color_primaries, "bt709")
          [] f = "frame_rate" -> OrNum(mi.frame_rate, OrNum(mi.fps, 0))
          [] f = "chromaFormat" -> OrStr(mi.chromaFormat, "4:2:0")
          [] f = "bitDepth" -> OrNum(mi.bitDepth, 8)
          [] OTHER -> mi[f]]

\* the guard on _dispatchFlag inverted
_dispatchMediaInfo_flagInverted(c) ==
    IF ~c.cb.onMediaInfo \/ ~c.dm._dispatchFlag THEN c
    ELSE [Invoke(c, "onMediaInfo",
                 [cb |-> "onMediaInfo", info |-> EnhancedInfo(c.dm._mediaInfo)])
            EXCEPT !.dm._dispatchFlag = IF c.cb.throws = "onMediaInfo" THEN @ ELSE TRUE]

\* the flag is set after onMediaInfo has returned
_dispatchMediaInfo(c) ==
    IF ~c.cb.onMediaInfo \/ c.dm._dispatchFlag THEN c
    ELSE [Invoke(c, "onMediaInfo",
                 [cb |-> "onMediaInfo", info |-> EnhancedInfo(c.dm._mediaInfo)])
            EXCEPT !.dm._dispatchFlag = IF c.cb.throws = "onMediaInfo" THEN @ ELSE TRUE]

RECURSIVE SumSeq(_)
SumSeq(s) == IF s = <<>> THEN 0 ELSE Head(s) + SumSeq(Tail(s))

\* tick: what performance.now() has advanced by since it was last read
_calculateFrameRate(c, pts, tick) ==
    LET now == c.now + tick
        dm == c.dm
        ptsDelta == pts - dm._lastPTS
        timeDelta == now - dm._lastFrameTime
        sampled == dm._lastPTS # Null /\ dm._lastFrameTime # Null
                     /\ ptsDelta > 0 /\ timeDelta > 0
        frameRateFromPTS == (90000 * 1000) \div ptsDelta
        frameRateFromTime == (1000 * 1000) \div timeDelta
        frameRate == ((frameRateFromPTS * 7) \div 10) + ((frameRateFromTime * 3) \div 10)
        pushed == Append(dm._frameRateSamples, frameRate)
        samples == IF Len(pushed) > 30 THEN Tail(pushed) ELSE pushed
        avgFrameRate == SumSeq(samples) \div Len(samples)
        changed == Abs(avgFrameRate - OrNum(dm._mediaInfo._lastReportedFrameRate, 0)) > 500
        c1 == IF ~sampled THEN c
              ELSE IF Len(samples) < 5 THEN [c EXCEPT !.dm._frameRateSamples = samples]
              ELSE LET c2 == [c EXCEPT !.dm._frameRateSamples = samples,
                                       !.dm._mediaInfo.frame_rate = avgFrameRate,
                                       !.dm._mediaInfo.fps = avgFrameRate]
                   IN  IF changed
                       THEN _dispatchMediaInfo(
                              [c2 EXCEPT !.dm._mediaInfo._lastReportedFrameRate = avgFrameRate])
                       ELSE c2
    IN  IF c1.thrown THEN [c1 EXCEPT !.now = now]
        ELSE [c1 EXCEPT !.dm._lastPTS = pts,
                        !.dm._lastFrameTime = now,
                        !.dm._frameCount = @ + 1,
                        !.now = now]

_calculateBitrates(dm) ==
    IF dm._beginTime # Null /\ dm._endTime # Null /\ dm._endTime > dm._beginTime
    THEN LET duration == dm._endTime - dm._beginTime
         IN  [dm EXCEPT
                !._mediaInfo.audioDataRate =
                    IF dm._audioBytes > 0 THEN RoundDiv(dm._audioBytes * 8, duration) ELSE @,
                !._mediaInfo.videoDataRate =
                    IF dm._videoBytes > 0 THEN RoundDiv(dm._videoBytes * 8, duration) ELSE @]
    ELSE dm

-----------------------------------------------------------------------------
(* BitReader.                                                              *)

\* a reader and the outcome of its last read: val the value returned, err
\* whether the read threw
BitReader(data) == [data |-> data, bitPosition |-> 0, bytePosition |-> 0,
                    val |-> 0, err |-> FALSE]

\* value << k on an int32 that is non-negative before the shift
ShiftLeft32(value, k) ==
    LET kept == IF k = 1 THEN value ELSE value % Pow2(32 - k)
    IN  IF k = 0 THEN value
        ELSE IF kept >= Pow2(31 - k)
             THEN ((kept - Pow2(31 - k)) * Pow2(k) - 2147483647) - 1
             ELSE kept * Pow2(k)

\* 1 << k for 0 <= k <= 32
ShiftOne(k) == IF k = 32 THEN 1 ELSE IF k = 31 THEN (-2147483647) - 1 ELSE Pow2(k)

RECURSIVE readULoop(_, _, _)
readULoop(r, bits, value) ==
    IF bits <= 0 THEN [r EXCEPT !.val = value, !.err = FALSE]
    ELSE IF r.bytePosition >= Len(r.data) THEN [r EXCEPT !.err = TRUE]
    ELSE LET byte == r.data[r.bytePosition + 1]
             bitsLeftInByte == 8 - (r.bitPosition % 8)
             bitsToRead == IF bits < bitsLeftInByte THEN bits ELSE bitsLeftInByte
             shift == bitsLeftInByte - bitsToRead
             mask == Pow2(bitsToRead) - 1
             shifted == ShiftLeft32(value, bitsToRead)
             valueNext == shifted + ((byte \div Pow2(shift)) % (mask + 1))
         IN  readULoop([r EXCEPT !.bitPosition = @ + bitsToRead,
                                 !.bytePosition = (r.bitPosition + bitsToRead) \div 8],
                       bits - bitsToRead, valueNext)

readU(r, bits) == readULoop(r, bits, 0)

\* suffix: the reader after the bits that follow the leading zeros.  The
\* sum is a double in the source and exact; it is taken here in an order that
\* stays within 32 bits for every result that has 32 bits
ueValue(suffix, leadingZeroBits) ==
    IF suffix.err THEN suffix
    ELSE [suffix EXCEPT !.val = ShiftOne(leadingZeroBits) + (suffix.val - 1)]

RECURSIVE readUELoop(_, _)
\* bit: the reader after readU(1)
ueBit(bit, leadingZeroBits) ==
    IF bit.err THEN bit
    ELSE IF bit.val # 0 THEN ueValue(readU(bit, leadingZeroBits), leadingZeroBits)
    ELSE IF leadingZeroBits + 1 > 32 THEN [bit EXCEPT !.err = TRUE]
    ELSE readUELoop(bit, leadingZeroBits + 1)

readUELoop(r, leadingZeroBits) == ueBit(readU(r, 1), leadingZeroBits)

readUE(r) == readUELoop(r, 0)

\* ue: the reader after readUE()
seValue(ue) ==
    IF ue.err THEN ue
    ELSE [ue EXCEPT !.val = IF ue.val % 2 = 0 THEN -(ue.val \div 2) ELSE (ue.val + 1) \div 2]

readSE(r) == seValue(readUE(r))

-----------------------------------------------------------------------------
(* EBSP to RBSP.                                                           *)

RECURSIVE ebsp2rbspFrom(_, _)
ebsp2rbspFrom(ebsp, i) ==
    IF i >= Len(ebsp) THEN <<>>
    ELSE IF i + 2 < Len(ebsp) /\ ebsp[i + 1] = 0 /\ ebsp[i + 2] = 0 /\ ebsp[i + 3] = 3
         THEN <<0, 0>> \o ebsp2rbspFrom(ebsp, i + 3)
         ELSE <<ebsp[i + 1]>> \o ebsp2rbspFrom(ebsp, i + 1)

\* the bytes returned as they came
_ebsp2rbsp_asIs(ebsp) == ebsp

_ebsp2rbsp(ebsp) == ebsp2rbspFrom(ebsp, 0)

-----------------------------------------------------------------------------
(* SPS and VUI.  A parse is the reader, the media info and the locals of   *)
(* the parsing functions that are read again after a later read; once a    *)
(* read has thrown (rd.err) every later step leaves the parse as it is,    *)
(* which is what the catch block of _parseSPS sees.                        *)

\* the locals before anything is read, with the defaults the source gives
Locals ==
    [ profile_idc |-> 0, chroma_format_idc |-> 1,
      bit_depth_luma_minus8 |-> 0, bit_depth_chroma_minus8 |-> 0,
      pic_width_in_mbs_minus1 |-> 0, pic_height_in_map_units_minus1 |-> 0,
      frame_mbs_only_flag |-> 0,
      frame_crop_left_offset |-> 0, frame_crop_right_offset |-> 0,
      frame_crop_top_offset |-> 0,
      video_format |-> 0, video_full_range_flag |-> 0,
      colour_primaries |-> 2, transfer_characteristics |-> 2, matrix_coefficients |-> 2,
      num_units_in_tick |-> 0, time_scale |-> 0,
      nal_hrd_parameters_present_flag |-> 0, cpb_cnt_minus1 |-> 0 ]

Parse(rd, mi) == [rd |-> rd, mi |-> mi, v |-> Locals]

\* const name = the value just read
Store(p, name) == IF p.rd.err THEN p ELSE [p EXCEPT !.v[name] = p.rd.val]

U(p, n) == IF p.rd.err THEN p ELSE [p EXCEPT !.rd = readU(p.rd, n)]

UE(p) == IF p.rd.err THEN p ELSE [p EXCEPT !.rd = readUE(p.rd)]

SE(p) == IF p.rd.err THEN p ELSE [p EXCEPT !.rd = readSE(p.rd)]

\* a % b as JavaScript computes it, the sign following the dividend
JsRem(a, b) == IF a >= 0 THEN a % b ELSE -((-a) % b)

RECURSIVE skipScalingListLoop(_, _, _, _, _)
\* p: after deltaScale has been read
scalingDelta(p, size, i, lastScale) ==
    LET nextScale == JsRem(lastScale + p.rd.val + 256, 256)
    IN  IF p.rd.err THEN p
        ELSE skipScalingListLoop(p, size, i + 1,
                                 IF nextScale = 0 THEN lastScale ELSE nextScale, nextScale)

skipScalingListLoop(p, size, i, lastScale, nextScale) ==
    IF p.rd.err \/ i >= size THEN p
    ELSE IF nextScale # 0 THEN scalingDelta(SE(p), size, i, lastScale)
    \* once nextScale is 0 the remaining iterations read nothing
    ELSE p

_skipScalingList(p, size) == skipScalingListLoop(p, size, 0, 8, 8)

RECURSIVE scalingMatrixLoop(_, _, _)
\* p: after seq_scaling_list_present_flag
scalingList(p, count, i) ==
    IF p.rd.err THEN p
    ELSE IF p.rd.val # 0
         THEN scalingMatrixLoop(_skipScalingList(p, IF i < 6 THEN 16 ELSE 64), count, i + 1)
         ELSE scalingMatrixLoop(p, count, i + 1)

scalingMatrixLoop(p, count, i) ==
    IF p.rd.err \/ i >= count THEN p ELSE scalingList(U(p, 1), count, i)

RECURSIVE readSELoop(_, _, _)
readSELoop(p, count, i) ==
    IF p.rd.err \/ i >= count THEN p ELSE readSELoop(SE(p), count, i + 1)

RECURSIVE hrdLoop(_, _, _)
hrdLoop(p, cpb_cnt_minus1, i) ==
    IF p.rd.err \/ i > cpb_cnt_minus1 THEN p
    ELSE hrdLoop(U(UE(UE(p)), 1), cpb_cnt_minus1, i + 1)

\* p: after cpb_size_scale
hrdSchedules(p) == hrdLoop(p, p.v.cpb_cnt_minus1, 0)

_skipHRDParameters(p) ==
    U(U(U(U(hrdSchedules(U(U(Store(UE(p), "cpb_cnt_minus1"), 4), 4)), 5), 5), 5), 5)

_getColorPrimariesName(code) ==
    CASE code = 1 -> "bt709" [] code = 2 -> "unspecified" [] code = 4 -> "bt470m"
      [] code = 5 -> "bt470bg" [] code = 6 -> "smpte170m" [] code = 7 -> "smpte240m"
      [] code = 8 -> "film" [] code = 9 -> "bt2020" [] code = 10 -> "smpte428"
      [] code = 11 -> "smpte431" [] code = 12 -> "smpte432" [] code = 22 -> "jedec-p22"
      [] OTHER -> "unknown"

_getTransferCharacteristicsName(code) ==
    CASE code = 1 -> "bt709" [] code = 2 -> "unspecified" [] code = 4 -> "gamma22"
      [] code = 5 -> "gamma28" [] code = 6 -> "smpte170m" [] code = 7 -> "smpte240m"
      [] code = 8 -> "linear" [] code = 9 -> "log100" [] code = 10 -> "log316"
      [] code = 11 -> "iec61966-2-4" [] code = 12 -> "bt1361e" [] code = 13 -> "srgb"
      [] code = 14 -> "bt2020-10" [] code = 15 -> "bt2020-12" [] code = 16 -> "smpte2084"
      [] code = 17 -> "smpte428" [] code = 18 -> "hlg"
      [] OTHER -> "unknown"

_getMatrixCoefficientsName(code) ==
    CASE code = 0 -> "gbrap" [] code = 1 -> "bt709" [] code = 2 -> "unspecified"
      [] code = 4 -> "fcc" [] code = 5 -> "bt470bg" [] code = 6 -> "smpte170m"
      [] code = 7 -> "smpte240m" [] code = 8 -> "ycgco" [] code = 9 -> "bt2020nc"
      [] code = 10 -> "bt2020c" [] code = 12 -> "smpte2085"
      [] code = 13 -> "chroma-derived-nc" [] code = 14 -> "chroma-derived-c"
      [] code = 15 -> "ictcp"
      [] OTHER -> "unknown"

\* p: after aspect_ratio_idc
vuiExtendedSar(p) == IF p.rd.err \/ p.rd.val # 255 THEN p ELSE U(U(p, 16), 16)

\* p: after aspect_ratio_info_present_flag
vuiAspectRatio(p) == IF p.rd.err \/ p.rd.val = 0 THEN p ELSE vuiExtendedSar(U(p, 8))

\* p: after overscan_info_present_flag
vuiOverscan(p) == IF p.rd.err \/ p.rd.val = 0 THEN p ELSE U(p, 1)

\* p: after colour_description_present_flag
vuiColourDescription(p) ==
    IF p.rd.err \/ p.rd.val = 0 THEN p
    ELSE Store(U(Store(U(Store(U(p, 8), "colour_primaries"), 8),
                       "transfer_characteristics"), 8),
               "matrix_coefficients")

\* p: after the colour description, if any
vuiColourInfo(p) ==
    IF p.rd.err THEN p
    ELSE [p EXCEPT
            !.mi.video_format = p.v.video_format,
            !.mi.color_range = IF p.v.video_full_range_flag # 0 THEN "full" ELSE "limited",
            !.mi.color_primaries_raw = p.v.colour_primaries,
            !.mi.transfer_characteristics = p.v.transfer_characteristics,
            !.mi.matrix_coefficients = p.v.matrix_coefficients,
            !.mi.color_primaries = _getColorPrimariesName(p.v.colour_primaries),
            !.mi.color_transfer =
                _getTransferCharacteristicsName(p.v.transfer_characteristics),
            !.mi.color_space = _getMatrixCoefficientsName(p.v.matrix_coefficients)]

\* p: after video_signal_type_present_flag
vuiVideoSignalType(p) ==
    IF p.rd.err \/ p.rd.val = 0 THEN p
    ELSE vuiColourInfo(vuiColourDescription(
            U(Store(U(Store(U(p, 3), "video_format"), 1), "video_full_range_flag"), 1)))

\* p: after chroma_loc_info_present_flag
vuiChromaLoc(p) == IF p.rd.err \/ p.rd.val = 0 THEN p ELSE UE(UE(p))

\* p: after fixed_frame_rate_flag
vuiFrameRate(p) ==
    IF p.rd.err \/ ~(p.v.num_units_in_tick > 0 /\ p.v.time_scale > 0) THEN p
    ELSE [p EXCEPT
            !.mi.frame_rate = (p.v.time_scale * 1000) \div (2 * p.v.num_units_in_tick),
            !.mi.fps = (p.v.time_scale * 1000) \div (2 * p.v.num_units_in_tick)]

\* p: after timing_info_present_flag
vuiTimingInfo(p) ==
    IF p.rd.err \/ p.rd.val = 0 THEN p
    ELSE vuiFrameRate(U(Store(U(Store(U(p, 32), "num_units_in_tick"), 32), "time_scale"), 1))

\* p: after nal_hrd_parameters_present_flag
vuiNalHrd(p) == IF p.rd.err \/ p.rd.val = 0 THEN p ELSE _skipHRDParameters(p)

\* p: after vcl_hrd_parameters_present_flag
vuiVclHrd(p) ==
    IF p.rd.err THEN p
    ELSE IF p.rd.val # 0 THEN U(_skipHRDParameters(p), 1)
    ELSE IF p.v.nal_hrd_parameters_present_flag # 0 THEN U(p, 1)
    ELSE p

\* p: after bitstream_restriction_flag
vuiBitstreamRestriction(p) ==
    IF p.rd.err \/ p.rd.val = 0 THEN p
    ELSE UE(UE(UE(UE(UE(UE(U(p, 1)))))))

_parseVUIParameters(p) ==
    LET aspect == vuiAspectRatio(U(p, 1))
        overscan == vuiOverscan(U(aspect, 1))
        signal == vuiVideoSignalType(U(overscan, 1))
        chroma == vuiChromaLoc(U(signal, 1))
        timing == vuiTimingInfo(U(chroma, 1))
        nal == vuiNalHrd(Store(U(timing, 1), "nal_hrd_parameters_present_flag"))
        vcl == vuiVclHrd(U(nal, 1))
    IN  vuiBitstreamRestriction(U(U(vcl, 1), 1))

\* the deep formats chosen by the chroma bit depth
_updateColorMetadata_byChromaDepth(mi, chroma_format_idc, bit_depth_luma_minus8, bit_depth_chroma_minus8) ==
    LET bitDepth == bit_depth_luma_minus8 + 8
        deep == bit_depth_chroma_minus8 + 8 > 8
    IN  [mi EXCEPT
           !.pix_fmt = CASE chroma_format_idc = 1 -> IF deep THEN "yuv420p10le" ELSE "yuv420p"
                         [] chroma_format_idc = 2 -> IF deep THEN "yuv422p10le" ELSE "yuv422p"
                         [] chroma_format_idc = 3 -> IF deep THEN "yuv444p10le" ELSE "yuv444p"
                         [] OTHER -> IF deep THEN "yuv420p10le" ELSE "yuv420p",
           !.chromaFormat = CASE chroma_format_idc = 1 -> "4:2:0"
                              [] chroma_format_idc = 2 -> "4:2:2"
                              [] chroma_format_idc = 3 -> "4:4:4"
                              [] OTHER -> "4:2:0",
           !.bitDepth = bitDepth]

_updateColorMetadata(mi, chroma_format_idc, bit_depth_luma_minus8, bit_depth_chroma_minus8) ==
    LET bitDepth == bit_depth_luma_minus8 + 8
        deep == bitDepth > 8
    IN  [mi EXCEPT
           !.pix_fmt = CASE chroma_format_idc = 1 -> IF deep THEN "yuv420p10le" ELSE "yuv420p"
                         [] chroma_format_idc = 2 -> IF deep THEN "yuv422p10le" ELSE "yuv422p"
                         [] chroma_format_idc = 3 -> IF deep THEN "yuv444p10le" ELSE "yuv444p"
                         [] OTHER -> IF deep THEN "yuv420p10le" ELSE "yuv420p",
           !.chromaFormat = CASE chroma_format_idc = 1 -> "4:2:0"
                              [] chroma_format_idc = 2 -> "4:2:2"
                              [] chroma_format_idc = 3 -> "4:4:4"
                              [] OTHER -> "4:2:0",
           !.bitDepth = bitDepth]

HighProfiles == {100, 110, 122, 244, 44, 83, 86, 118, 128}

\* NAL header, profile_idc, constraint flags, level_idc, seq_parameter_set_id
spsProfile(p) == UE(U(U(Store(U(U(p, 8), 8), "profile_idc"), 8), 8))

\* p: after seq_scaling_matrix_present_flag
spsScalingMatrix(p) ==
    IF p.rd.err \/ p.rd.val = 0 THEN p
    ELSE scalingMatrixLoop(p, IF p.v.chroma_format_idc # 3 THEN 8 ELSE 12, 0)

\* p: after chroma_format_idc
spsBitDepth(p) ==
    LET plane == IF ~p.rd.err /\ p.v.chroma_format_idc = 3 THEN U(p, 1) ELSE p
        luma == Store(UE(plane), "bit_depth_luma_minus8")
        chroma == Store(UE(luma), "bit_depth_chroma_minus8")
    IN  spsScalingMatrix(U(U(chroma, 1), 1))

\* p: after seq_parameter_set_id
spsChromaFormat(p) ==
    IF p.rd.err \/ p.v.profile_idc \notin HighProfiles THEN p
    ELSE spsBitDepth(Store(UE(p), "chroma_format_idc"))

\* p: after num_ref_frames_in_pic_order_cnt_cycle
spsRefFrames(p) == readSELoop(p, p.rd.val, 0)

\* p: after pic_order_cnt_type
spsPicOrderCnt(p) ==
    IF p.rd.err THEN p
    ELSE IF p.rd.val = 0 THEN UE(p)
    ELSE IF p.rd.val = 1 THEN spsRefFrames(UE(SE(SE(U(p, 1)))))
    ELSE p

\* log2_max_frame_num_minus4 to gaps_in_frame_num_value_allowed_flag
spsFrameNum(p) == U(UE(spsPicOrderCnt(UE(UE(p)))), 1)

\* p: after frame_mbs_only_flag
spsFrameField(p) == IF ~p.rd.err /\ p.rd.val = 0 THEN U(p, 1) ELSE p

\* p: after direct_8x8_inference_flag
spsSize(p) ==
    IF p.rd.err THEN p
    ELSE [p EXCEPT
            !.mi.width = (p.v.pic_width_in_mbs_minus1 + 1) * 16,
            !.mi.height = ((2 - p.v.frame_mbs_only_flag)
                              * (p.v.pic_height_in_map_units_minus1 + 1)) * 16]

\* pic_width_in_mbs_minus1 to the dimensions
spsDimensions(p) ==
    LET width == Store(UE(p), "pic_width_in_mbs_minus1")
        height == Store(UE(width), "pic_height_in_map_units_minus1")
        frame == Store(U(height, 1), "frame_mbs_only_flag")
    IN  spsSize(U(spsFrameField(frame), 1))

\* the offsets subtracted once, not twice
spsCrop_once(p) ==
    IF p.rd.err THEN p
    ELSE [p EXCEPT
            !.mi.width = @ - (p.v.frame_crop_left_offset + p.v.frame_crop_right_offset),
            !.mi.height = @ - (p.v.frame_crop_top_offset + p.rd.val)]

\* p: after frame_crop_bottom_offset
spsCrop(p) ==
    IF p.rd.err THEN p
    ELSE [p EXCEPT
            !.mi.width = @ - (p.v.frame_crop_left_offset + p.v.frame_crop_right_offset) * 2,
            !.mi.height = @ - (p.v.frame_crop_top_offset + p.rd.val) * 2]

\* p: after frame_cropping_flag
spsCropping(p) ==
    IF p.rd.err \/ p.rd.val = 0 THEN p
    ELSE spsCrop(UE(Store(UE(Store(UE(Store(UE(p), "frame_crop_left_offset")),
                                   "frame_crop_right_offset")),
                          "frame_crop_top_offset")))

\* p: after vui_parameters_present_flag
spsVui(p) == IF p.rd.err \/ p.rd.val = 0 THEN p ELSE _parseVUIParameters(p)

\* p: at the end of the try block, or where a read threw
spsColor(p) ==
    IF p.rd.err THEN p.mi
    ELSE _updateColorMetadata(p.mi, p.v.chroma_format_idc, p.v.bit_depth_luma_minus8,
                              p.v.bit_depth_chroma_minus8)

\* the media info after _parseSPS(sps); sps is the byte content of the view
_parseSPS(mi, sps) ==
    IF Len(sps) < 4 THEN mi
    ELSE LET start == Parse(BitReader(_ebsp2rbsp(sps)), mi)
             picture == spsDimensions(spsFrameNum(spsChromaFormat(spsProfile(start))))
         IN  spsColor(spsVui(U(spsCropping(U(picture, 1)), 1)))

-----------------------------------------------------------------------------
(* FLV header and audio path.                                              *)

\* the flags recorded before the signature is checked
_parseFLVHeader_flagsFirst(dm, data) ==
    IF Len(data) < 9 THEN [ok |-> FALSE, dm |-> dm]
    ELSE LET flags == data[5]
             hasAudio == (flags \div 4) % 2 # 0
             hasVideo == flags % 2 # 0
             recorded == [dm EXCEPT !._hasAudio = hasAudio, !._hasVideo = hasVideo,
                                    !._mediaInfo.hasAudio = hasAudio,
                                    !._mediaInfo.hasVideo = hasVideo]
         IN  [ok |-> <<data[1], data[2], data[3]>> = <<70, 76, 86>>, dm |-> recorded]

\* returns the header's verdict and the demuxer's fields afterwards
_parseFLVHeader(dm, data) ==
    IF Len(data) < 9 THEN [ok |-> FALSE, dm |-> dm]
    ELSE IF <<data[1], data[2], data[3]>> # <<70, 76, 86>> THEN [ok |-> FALSE, dm |-> dm]
    ELSE LET flags == data[5]
             hasAudio == (flags \div 4) % 2 # 0
             hasVideo == flags % 2 # 0
         IN  [ok |-> TRUE,
              dm |-> [dm EXCEPT !._hasAudio = hasAudio, !._hasVideo = hasVideo,
                                !._mediaInfo.hasAudio = hasAudio,
                                !._mediaInfo.hasVideo = hasVideo]]

\* computes audioObjectType, samplingFrequencyIndex and channelConfiguration
\* into locals and stores none of them
_parseAACSequenceHeader(c, data, offset, length) == c

AudioSampleRates == <<5500, 11025, 22050, 44100>>

\* new Uint8Array(data.buffer, data.byteOffset + offset, length) followed by
\* onData(track, view, pts, dts); the constructor throws a RangeError when
\* length is negative or the view leaves the buffer
ViewFits(data, offset, length) ==
    ~(length < 0 \/ offset > Len(data) \/ offset + length > Len(data))

EmitData(c, data, track, offset, length, pts, dts) ==
    IF ~ViewFits(data, offset, length)
    THEN [c EXCEPT !.thrown = TRUE]
    ELSE Invoke(c, "onData", [cb |-> "onData", track |-> track,
                              view |-> View(offset, length),
                              bytes |-> SubSeq(data, offset + 1, offset + length),
                              pts |-> pts, dts |-> dts])

\* the audio fields taken from every AAC or MP3 tag
_parseAudioData_everyTag(c, data, offset0, length0, timestamp) ==
    IF length0 < 1 THEN [success |-> FALSE, c |-> c]
    ELSE LET soundFormat == (data[offset0 + 1] \div 16) % 16
             soundRate == (data[offset0 + 1] \div 4) % 4
             soundType == data[offset0 + 1] % 2
             offset == offset0 + 1
             length == length0 - 1
             set == [c EXCEPT
                       !.dm._mediaInfo.audioCodec = IF soundFormat = 10 THEN "aac" ELSE "mp3",
                       !.dm._mediaInfo.audioSampleRate = AudioSampleRates[soundRate + 1],
                       !.dm._mediaInfo.audioChannelCount = soundType + 1,
                       !.dm._audioInitialMetadataDispatched = TRUE]
         IN  IF soundFormat # 10 /\ soundFormat # 2
             THEN [success |-> TRUE, c |-> c]
             ELSE [success |-> TRUE,
                   c |-> IF c.cb.onData
                         THEN EmitData(_dispatchMediaInfo(set), data, "audio", offset, length,
                                       timestamp, timestamp)
                         ELSE _dispatchMediaInfo(set)]

\* returns success and the running state
_parseAudioData(c, data, offset0, length0, timestamp) ==
    IF length0 < 1 THEN [success |-> FALSE, c |-> c]
    ELSE LET soundFormat == (data[offset0 + 1] \div 16) % 16
             soundRate == (data[offset0 + 1] \div 4) % 4
             soundType == data[offset0 + 1] % 2
             offset == offset0 + 1
             length == length0 - 1
             c1 == IF soundFormat = 10 /\ length > 1 /\ ByteAt(data, offset) = 0
                   THEN _parseAACSequenceHeader(c, data, offset + 1, length - 1)
                   ELSE c
             c2 == IF ~c1.dm._audioInitialMetadataDispatched
                   THEN LET set == [c1 EXCEPT
                                !.dm._mediaInfo.audioCodec =
                                    IF soundFormat = 10 THEN "aac" ELSE "mp3",
                                !.dm._mediaInfo.audioSampleRate = AudioSampleRates[soundRate + 1],
                                !.dm._mediaInfo.audioChannelCount = soundType + 1]
                            dispatched == _dispatchMediaInfo(set)
                        IN  [dispatched EXCEPT
                                !.dm._audioInitialMetadataDispatched = ~dispatched.thrown]
                   ELSE c1
             c3 == IF ~c2.thrown /\ c2.cb.onData
                   THEN EmitData(c2, data, "audio", offset, length, timestamp, timestamp)
                   ELSE c2
         IN  IF soundFormat # 10 /\ soundFormat # 2
             THEN [success |-> TRUE, c |-> c1]
             ELSE [success |-> TRUE, c |-> c3]

-----------------------------------------------------------------------------
(* Video path.                                                             *)

\* ToInt32(0xFF800000)
SignBias == -8388608

RECURSIVE spsLoop(_, _, _, _)
\* at: the media info, offset and length as the iteration begins
spsLoop(at, data, spsCount, i) ==
    IF i >= spsCount \/ at.length < 2 THEN at
    ELSE LET spsLength == readUint16(data, at.offset)
             o == at.offset + 2
             l == at.length - 2
         IN  IF spsLength > 0 /\ l >= spsLength
             THEN spsLoop([mi |-> _parseSPS([at.mi EXCEPT !.sps = View(o, spsLength)],
                                            SubSeq(data, o + 1, o + spsLength)),
                           offset |-> o + spsLength, length |-> l - spsLength],
                          data, spsCount, i + 1)
             ELSE spsLoop([at EXCEPT !.offset = o, !.length = l], data, spsCount, i + 1)

RECURSIVE ppsLoop(_, _, _, _, _, _)
ppsLoop(mi, data, offset, length, ppsCount, i) ==
    IF i >= ppsCount \/ length < 2 THEN mi
    ELSE LET ppsLength == readUint16(data, offset)
             o == offset + 2
             l == length - 2
         IN  IF ppsLength > 0 /\ l >= ppsLength
             THEN ppsLoop([mi EXCEPT !.pps = View(o, ppsLength)],
                          data, o + ppsLength, l - ppsLength, ppsCount, i + 1)
             ELSE ppsLoop(mi, data, o, l, ppsCount, i + 1)

\* afterSps: the media info, offset and length after the SPS entries
configPps(c, data, afterSps) ==
    IF afterSps.length < 1
    THEN [c EXCEPT !.dm._mediaInfo = afterSps.mi]
    ELSE _dispatchMediaInfo(
           [c EXCEPT !.dm._mediaInfo =
               ppsLoop(afterSps.mi, data, afterSps.offset + 1, afterSps.length - 1,
                       ByteAt(data, afterSps.offset), 0)])

_parseAVCDecoderConfigurationRecord(c, data, offset, length) ==
    IF length < 7 THEN c
    ELSE configPps(c, data,
                   spsLoop([mi |-> [c.dm._mediaInfo EXCEPT
                                       !.videoCodec = "avc",
                                       !.profile = Bits(data, offset + 1),
                                       !.level = Bits(data, offset + 3)],
                            offset |-> offset + 6, length |-> length - 6],
                           data, Bits(data, offset + 5) % 32, 0))

\* the view of the frame is made, a key frame is noted, and the view is
\* handed to onData
naluData(c, data, offset, length, pts, dts, frameType) ==
    EmitData(IF frameType = 1 /\ ViewFits(data, offset, length)
             THEN [c EXCEPT !.dm._hasKeyFrame = TRUE]
             ELSE c,
             data, "video", offset, length, pts, dts)

\* c: after the frame has been handed to onData, if set
naluTimestamp(c, pts, dts) ==
    IF c.thrown \/ ~c.cb.onTimestamp THEN c
    ELSE Invoke(c, "onTimestamp", [cb |-> "onTimestamp", pts |-> pts, dts |-> dts])

\* c: after _calculateFrameRate(pts)
naluFrame(c, data, offset, length, pts, dts, frameType) ==
    IF c.thrown THEN c
    ELSE naluTimestamp(IF c.cb.onData
                       THEN naluData(c, data, offset, length, pts, dts, frameType)
                       ELSE c,
                       pts, dts)

_parseAVCNALU(c, data, offset, length, timestamp, compositionTime, frameType, tick) ==
    naluFrame(_calculateFrameRate(c, timestamp + compositionTime, tick),
              data, offset, length, timestamp + compositionTime, timestamp, frameType)

\* a frame of another codec clears videoCodec
_parseVideoData_codecCleared(c, data, offset0, length0, timestamp, tick) ==
    IF length0 < 1 THEN [success |-> FALSE, c |-> c]
    ELSE LET frameType == (data[offset0 + 1] \div 16) % 16
             codecId == data[offset0 + 1] % 16
             avcPacketType == ByteAt(data, offset0 + 1)
             compositionTime == Xor32(readUint24(data, offset0 + 2) + SignBias, SignBias)
             offset == offset0 + 5
             length == length0 - 5
         IN  IF codecId # 7
             THEN [success |-> TRUE, c |-> [c EXCEPT !.dm._mediaInfo.videoCodec = NullStr]]
             ELSE IF frameType = 5 THEN [success |-> TRUE, c |-> c]
             ELSE IF avcPacketType = 0
                  THEN [success |-> TRUE,
                        c |-> _parseAVCDecoderConfigurationRecord(c, data, offset, length)]
             ELSE IF avcPacketType = 1
                  THEN [success |-> TRUE,
                        c |-> _parseAVCNALU(c, data, offset, length, timestamp,
                                            compositionTime, frameType, tick)]
             ELSE [success |-> TRUE, c |-> c]

\* the composition time taken as read, without its sign
_parseVideoData_unsigned(c, data, offset0, length0, timestamp, tick) ==
    IF length0 < 1 THEN [success |-> FALSE, c |-> c]
    ELSE LET frameType == (data[offset0 + 1] \div 16) % 16
             codecId == data[offset0 + 1] % 16
             avcPacketType == ByteAt(data, offset0 + 1)
             compositionTime == readUint24(data, offset0 + 2)
             offset == offset0 + 5
             length == length0 - 5
         IN  IF codecId # 7 \/ frameType = 5 THEN [success |-> TRUE, c |-> c]
             ELSE IF avcPacketType = 0
                  THEN [success |-> TRUE,
                        c |-> _parseAVCDecoderConfigurationRecord(c, data, offset, length)]
             ELSE IF avcPacketType = 1
                  THEN [success |-> TRUE,
                        c |-> _parseAVCNALU(c, data, offset, length, timestamp,
                                            compositionTime, frameType, tick)]
             ELSE [success |-> TRUE, c |-> c]

\* returns success and the running state
_parseVideoData(c, data, offset0, length0, timestamp, tick) ==
    IF length0 < 1 THEN [success |-> FALSE, c |-> c]
    ELSE LET frameType == (data[offset0 + 1] \div 16) % 16
             codecId == data[offset0 + 1] % 16
             avcPacketType == ByteAt(data, offset0 + 1)
             compositionTime == Xor32(readUint24(data, offset0 + 2) + SignBias, SignBias)
             offset == offset0 + 5
             length == length0 - 5
         IN  IF codecId # 7 \/ frameType = 5 THEN [success |-> TRUE, c |-> c]
             ELSE IF avcPacketType = 0
                  THEN [success |-> TRUE,
                        c |-> _parseAVCDecoderConfigurationRecord(c, data, offset, length)]
             ELSE IF avcPacketType = 1
                  THEN [success |-> TRUE,
                        c |-> _parseAVCNALU(c, data, offset, length, timestamp,
                                            compositionTime, frameType, tick)]
             ELSE [success |-> TRUE, c |-> c]

-----------------------------------------------------------------------------
(* Script path.  The body of _parseAMFData is not part of the source; it is *)
(* taken to be an AMF0 decoder returning {data, consumed} and throwing on   *)
(* a value it cannot decode.  Decoded here: number (0), boolean (1),        *)
(* string (2), null (5) and ECMA array (8) of numbers.                      *)

AmfError == [err |-> TRUE, data |-> AmfNull, consumed |-> 0]

AmfResult(value, consumed) == [err |-> FALSE, data |-> value, consumed |-> consumed]

\* an IEEE-754 double of 8 bytes at offset o: its integer part, exact up to
\* 2^21 and kept at 2^21 - 1 above
AmfNumber(data, o) ==
    LET negative == data[o + 1] >= 128
        e == (data[o + 1] % 128) * 16 + (data[o + 2] \div 16)
        top20 == ((data[o + 2] % 16) * 256 + data[o + 3]) * 256 + data[o + 4]
        lowZero == \A k \in 5..8 : data[o + k] = 0
        zero == e = 0 /\ top20 = 0 /\ lowZero
        nan == e = 2047 /\ ~(top20 = 0 /\ lowZero)
        magnitude == IF e < 1023 THEN 0
                     ELSE IF e > 1023 + 20 THEN Pow2(21) - 1
                     ELSE Pow2(e - 1023) + (top20 \div Pow2(20 - (e - 1023)))
    IN  AmfValue("number", IF negative THEN -magnitude ELSE magnitude,
                 ~zero /\ ~nan, <<>>, <<>>)

\* the properties of an ECMA array from offset o, until the end marker 00 00 09
RECURSIVE AmfProperties(_, _, _, _)
AmfProperties(data, o, limit, props) ==
    IF o + 3 > limit THEN [err |-> TRUE, props |-> props, next |-> o]
    ELSE LET keyLength == readUint16(data, o)
             key == SubSeq(data, o + 3, o + 2 + keyLength)
             v == o + 2 + keyLength
         IN  IF keyLength = 0 /\ data[o + 3] = 9
             THEN [err |-> FALSE, props |-> props, next |-> o + 3]
             ELSE IF v + 9 > limit \/ data[v + 1] # 0
                  THEN [err |-> TRUE, props |-> props, next |-> o]
                  ELSE AmfProperties(data, v + 9, limit,
                                     Append(props, [key |-> key, val |-> AmfNumber(data, v + 1)]))

_parseAMFData(data, offset, length) ==
    IF length < 1 THEN AmfError
    ELSE LET marker == data[offset + 1]
             limit == offset + length
         IN  CASE marker = 0 ->
                    IF length < 9 THEN AmfError
                    ELSE AmfResult(AmfNumber(data, offset + 1), 9)
               [] marker = 1 ->
                    IF length < 2 THEN AmfError
                    ELSE AmfResult(AmfValue("boolean", 0, data[offset + 2] # 0, <<>>, <<>>), 2)
               [] marker = 2 ->
                    IF length < 3 \/ length < 3 + readUint16(data, offset + 1) THEN AmfError
                    ELSE LET n == readUint16(data, offset + 1)
                         IN  AmfResult(AmfValue("string", 0, n > 0,
                                                SubSeq(data, offset + 4, offset + 3 + n), <<>>),
                                       3 + n)
               [] marker = 5 -> AmfResult(AmfNull, 1)
               [] marker = 8 ->
                    IF length < 5 THEN AmfError
                    ELSE LET ps == AmfProperties(data, offset + 5, limit, <<>>)
                         IN  IF ps.err THEN AmfError
                             ELSE AmfResult(AmfValue("object", 0, TRUE, <<>>, ps.props),
                                            ps.next - offset)
               [] OTHER -> AmfError

\* metadata.<key>: the property's value, or undefined (a falsy value)
RECURSIVE AmfLookup(_, _)
AmfLookup(props, key) ==
    IF props = <<>> THEN AmfNull
    ELSE IF props[Len(props)].key = key THEN props[Len(props)].val
    ELSE AmfLookup(SubSeq(props, 1, Len(props) - 1), key)

\* the property names "width", "height", "framerate" as byte strings
KeyWidth == <<119, 105, 100, 116, 104>>

KeyHeight == <<104, 101, 105, 103, 104, 116>>

KeyFramerate == <<102, 114, 97, 109, 101, 114, 97, 116, 101>>

\* the catch block of _parseScriptData: an exception raised in the try block,
\* by the decoder or by a callback, ends there
scriptCaught(c) == [c EXCEPT !.thrown = FALSE]

\* c: after onScriptData, if set, has been invoked
scriptDispatch(c) == scriptCaught(IF c.thrown THEN c ELSE _dispatchMediaInfo(c))

\* the metadata is not forwarded
scriptForward_silent(c, metadata) == scriptDispatch(c)

\* c: after the metadata has been stored
scriptForward(c, metadata) ==
    scriptDispatch(IF c.cb.onScriptData
                   THEN Invoke(c, "onScriptData",
                               [cb |-> "onScriptData", metadata |-> metadata])
                   ELSE c)

\* value: the decoded value of the script tag
scriptValue(c, value) ==
    LET metadata == value.data
        width == AmfLookup(metadata.props, KeyWidth)
        height == AmfLookup(metadata.props, KeyHeight)
        framerate == AmfLookup(metadata.props, KeyFramerate)
        sized == metadata.truthy /\ width.truthy /\ height.truthy
        timed == metadata.truthy /\ framerate.truthy
    IN  IF value.err THEN c
        ELSE scriptForward(
               [c EXCEPT
                  !.dm._metadata = metadata,
                  !.dm._mediaInfo.metadata = metadata,
                  !.dm._mediaInfo.width = IF sized THEN width.num ELSE @,
                  !.dm._mediaInfo.height = IF sized THEN height.num ELSE @,
                  !.dm._mediaInfo.fps = IF timed THEN framerate.num * 1000 ELSE @,
                  !.dm._mediaInfo.frame_rate = IF timed THEN framerate.num * 1000 ELSE @],
               metadata)

\* name: the decoded name of the script tag
scriptName(c, data, offset, length, name) ==
    IF name.err THEN c
    ELSE scriptValue(c, _parseAMFData(data, offset + name.consumed, length - name.consumed))

\* always reports success; an exception of the AMF decoder is caught
_parseScriptData(c, data, offset, length, timestamp) ==
    scriptName(c, data, offset, length, _parseAMFData(data, offset, length))

-----------------------------------------------------------------------------
(* parseChunks.                                                            *)

\* the outcome of the tag loop: the running state, the offset reached, how
\* the loop ended, and where the tag that did not fit began (or -1)
LoopEnd(c, offset, how, cutTag) == [c |-> c, offset |-> offset, how |-> how, cutTag |-> cutTag]

\* the record of a tag that also moves the end time to the tag's timestamp
TagSeen_timed(c, at, tagType, dataSize, timestamp, streamId, payload) ==
    [c EXCEPT !.log = Append(@, [cb |-> "tag", at |-> at, tagType |-> tagType,
                                 dataSize |-> dataSize, timestamp |-> timestamp,
                                 streamId |-> streamId, payload |-> payload,
                                 before |-> c.dm]),
              !.dm._endTime = timestamp]

\* a record, in the trace, of the tag the loop is about to dispatch
TagSeen(c, at, tagType, dataSize, timestamp, streamId, payload) ==
    [c EXCEPT !.log = Append(@, [cb |-> "tag", at |-> at, tagType |-> tagType,
                                 dataSize |-> dataSize, timestamp |-> timestamp,
                                 streamId |-> streamId, payload |-> payload,
                                 before |-> c.dm])]

\* the tag handed to the parser of its type; returns success and the
\* running state
tagDispatch(c, data, tagType, offset, dataSize, timestamp, tick) ==
    CASE tagType = 8 ->
           _parseAudioData([c EXCEPT !.dm._audioBytes = @ + dataSize],
                           data, offset, dataSize, timestamp)
      [] tagType = 9 ->
           _parseVideoData([c EXCEPT !.dm._videoBytes = @ + dataSize],
                           data, offset, dataSize, timestamp, tick)
      [] tagType = 18 ->
           [success |-> TRUE, c |-> _parseScriptData(c, data, offset, dataSize, timestamp)]
      [] OTHER -> [success |-> TRUE, c |-> c]

RECURSIVE tagLoop(_, _, _, _, _)
\* parsed: what the parser of the tag at offset returned
tagParsed(parsed, data, offset, dataSize, end, tick) ==
    IF parsed.c.thrown THEN LoopEnd(parsed.c, offset, "thrown", -1)
    ELSE IF ~parsed.success THEN LoopEnd(parsed.c, offset, "format", -1)
    ELSE tagLoop(parsed.c, data, offset + dataSize, end, tick)

tagLoop(c, data, offset0, end, tick) ==
    IF ~(offset0 + 15 <= end) THEN LoopEnd(c, offset0, "end", -1)
    ELSE
    LET previousTagSize == readUint32(data, offset0)
        header == offset0 + 4
        tagType == readUint8(data, header) % 32
        dataSize == readUint24(data, header + 1)
        timestamp == readUint24(data, header + 4) + ShiftLeft24(readUint8(data, header + 7))
        streamId == readUint24(data, header + 8)
        offset == header + 11
        seen == TagSeen(c, offset0, tagType, dataSize, timestamp, streamId,
                        SubSeq(data, offset + 1, offset + dataSize))
        timed == [seen EXCEPT
                    !.dm._beginTime = IF @ = Null THEN timestamp ELSE @,
                    !.dm._endTime = timestamp]
    IN  IF header + 11 > end THEN LoopEnd(c, header, "end", -1)
        ELSE IF offset + dataSize > end THEN LoopEnd(c, offset, "end", offset0)
        ELSE IF streamId # 0 THEN tagLoop(seen, data, offset + dataSize, end, tick)
        ELSE tagParsed(tagDispatch(timed, data, tagType, offset, dataSize, timestamp, tick),
                       data, offset, dataSize, end, tick)

\* what a call returns: a consumed count, FORMAT_ERROR, or an exception
Consumed(n) == [kind |-> "consumed", consumed |-> n]

FormatError == [kind |-> FORMAT_ERROR, consumed |-> 0]

Thrown == [kind |-> "thrown", consumed |-> 0]

NotCalled == [kind |-> "none", consumed |-> 0]

\* loop: how the tag loop ended
chunkParsed(loop, start) ==
    IF loop.how = "format"
    THEN [dm |-> loop.c.dm, log |-> loop.c.log, now |-> loop.c.now,
          ret |-> FormatError, cutTag |-> -1]
    ELSE IF loop.how = "thrown"
    THEN [dm |-> loop.c.dm, log |-> loop.c.log, now |-> loop.c.now,
          ret |-> Thrown, cutTag |-> -1]
    ELSE [dm |-> _calculateBitrates(loop.c.dm), log |-> loop.c.log, now |-> loop.c.now,
          ret |-> Consumed(loop.offset - start), cutTag |-> loop.cutTag]

\* the whole chunk reported as consumed
parseChunks_wholeChunk(dm, cb, log, now, chunk, start, end, tick) ==
    LET header == _parseFLVHeader([dm EXCEPT !._firstParse = FALSE], chunk)
        entered == IF dm._firstParse THEN header.dm ELSE dm
    IN  IF dm._firstParse /\ ~header.ok
        THEN [dm |-> header.dm, log |-> log, now |-> now, ret |-> FormatError, cutTag |-> -1]
        ELSE chunkParsed([tagLoop(Ctx(entered, cb, log, now), chunk, start, end, tick)
                             EXCEPT !.offset = end],
                         start)

\* one call: the demuxer's fields, the trace and the clock afterwards, the
\* value returned, and where the tag that did not fit began (or -1)
parseChunks(dm, cb, log, now, chunk, start, end, tick) ==
    LET header == _parseFLVHeader([dm EXCEPT !._firstParse = FALSE], chunk)
        entered == IF dm._firstParse THEN header.dm ELSE dm
    IN  IF dm._firstParse /\ ~header.ok
        THEN [dm |-> header.dm, log |-> log, now |-> now, ret |-> FormatError, cutTag |-> -1]
        ELSE chunkParsed(tagLoop(Ctx(entered, cb, log, now), chunk, start, end, tick), start)

-----------------------------------------------------------------------------
(* The streams the caller feeds.                                           *)

U24(n) == <<n \div 65536, (n \div 256) % 256, n % 256>>

U32(n) == <<n \div 16777216>> \o U24(n % 16777216)

FlvHeader(flags) == <<70, 76, 86, 1, flags, 0, 0, 0, 9>>

FlvTag(tagType, timestamp, streamId, payload) ==
    <<tagType>> \o U24(Len(payload)) \o U24(timestamp % 16777216)
        \o <<timestamp \div 16777216>> \o U24(streamId) \o payload

\* payloads
AacRaw == <<175, 1, 33>>

AacHeader == <<175, 0, 18, 16>>

Mp3Frame == <<46, 85>>

SpeexFrame == <<178, 1>>

BaselineSps == <<103, 66, 0, 30, 218, 5, 7, 228>>

AvcConfig == <<23, 0, 0, 0, 0, 1, 66, 0, 30, 255, 225, 0, 8>> \o BaselineSps
                \o <<1, 0, 2, 104, 206>>

NaluKey == <<23, 1, 0, 0, 0, 101>>

NaluInter == <<39, 1, 0, 0, 2, 65>>

NaluShort == <<23, 1, 0>>

H263Frame == <<34, 0>>

ScriptNull == <<2, 0, 1, 109, 5>>

ScriptBad == <<255>>

AvcConfigCut == <<23, 0, 0, 0, 0, 1, 66, 0, 30, 255, 225>>

\* an SPS of 16x16 whose cropping offsets (left 4, right 4) take 16 off the width
CroppedSps == <<103, 66, 0, 30, 244, 249, 75, 160>>

CroppedConfig == <<23, 0, 0, 0, 0, 1, 66, 0, 30, 255, 225, 0, 8>> \o CroppedSps
                    \o <<1, 0, 2, 104, 206>>

\* onMetaData-like: name "m", value the ECMA array {width: 320, height: 200}
ScriptSized ==
    <<2, 0, 1, 109, 8, 0, 0, 0, 2>>
        \o <<0, 5>> \o <<119, 105, 100, 116, 104>> \o <<0, 64, 116, 0, 0, 0, 0, 0, 0>>
        \o <<0, 6>> \o <<104, 101, 105, 103, 104, 116>> \o <<0, 64, 105, 0, 0, 0, 0, 0, 0>>
        \o <<0, 0, 9>>

\* single tags: every kind of tag the loop tells apart
Catalogue ==
    { FlvTag(8, 0, 0, AacRaw), FlvTag(8, 0, 0, AacHeader), FlvTag(8, 0, 0, Mp3Frame),
      FlvTag(8, 0, 0, <<>>), FlvTag(8, 0, 0, SpeexFrame), FlvTag(8, 0, 1, Mp3Frame),
      FlvTag(9, 0, 0, AvcConfig), FlvTag(9, 0, 0, AvcConfigCut), FlvTag(9, 40, 0, NaluKey),
      FlvTag(9, 0, 0, H263Frame), FlvTag(9, 0, 0, NaluShort), FlvTag(9, 0, 0, <<>>),
      FlvTag(18, 0, 0, ScriptNull), FlvTag(18, 0, 0, ScriptBad),
      FlvTag(5, 0, 0, <<1>>) }

\* pairs of tags: what comes first, and what follows it
Leaders ==
    { FlvTag(8, 0, 0, AacRaw), FlvTag(8, 0, 0, SpeexFrame), FlvTag(8, 0, 1, Mp3Frame),
      FlvTag(9, 0, 0, AvcConfig), FlvTag(9, 0, 0, H263Frame),
      FlvTag(18, 0, 0, ScriptNull), FlvTag(18, 0, 0, ScriptBad), FlvTag(5, 0, 0, <<1>>) }

Followers ==
    { FlvTag(8, 20, 0, Mp3Frame), FlvTag(9, 20, 0, AvcConfig), FlvTag(9, 40, 0, NaluInter),
      FlvTag(9, 20, 0, H263Frame) }

\* a run of n video frames 40 ms apart
RECURSIVE FrameRun(_, _)
FrameRun(n, timestamp) ==
    IF n = 0 THEN <<>>
    ELSE <<FlvTag(9, timestamp, 0, IF timestamp = 0 THEN NaluKey ELSE NaluInter)>>
            \o FrameRun(n - 1, timestamp + 40)

\* the tags laid out as the tag loop reads them: each after a previousTagSize
RECURSIVE Framed(_, _)
Framed(tags, previous) ==
    IF tags = <<>> THEN <<>>
    ELSE U32(previous) \o Head(tags) \o Framed(Tail(tags), Len(Head(tags)))

\* an FLV file: header, previousTagSize0, then each tag followed by its size
FlvFile(flags, tags) ==
    FlvHeader(flags) \o Framed(tags, 0)
        \o (IF tags = <<>> THEN <<0, 0, 0, 0>> ELSE U32(Len(tags[Len(tags)])))

\* a stream whose tags begin at byte 15: the tag loop starts at byteStart and
\* takes bytes 0..14 for a previousTagSize and a tag header (of stream id 1)
FromByte15(flags, tags) == FlvHeader(flags) \o <<0, 0, 0, 0>> \o <<0, 1>> \o Framed(tags, 0)

\* an SPS of 16x16 without cropping
SmallSps == <<103, 66, 0, 30, 251, 192>>

\* a configuration record with two SPS (320x240, then 16x16) and two PPS
TwoSpsConfig ==
    <<23, 0, 0, 0, 0, 1, 66, 0, 30, 255, 226, 0, 8>> \o BaselineSps
        \o <<0, 6>> \o SmallSps \o <<2, 0, 2, 104, 206, 0, 3, 104, 207, 128>>

\* the lists of tags the streams are made of
TagLists ==
    {<<>>}
      \cup {<<t>> : t \in Catalogue}
      \cup {<<a, b>> : a \in Leaders, b \in Followers}
      \cup {<<FlvTag(8, 0, 0, AacRaw), FlvTag(9, 0, 0, NaluKey)>>,
            <<FlvTag(8, 0, 0, AacRaw), FlvTag(9, 0, 0, AvcConfig),
              FlvTag(9, 20, 0, H263Frame)>>,
            <<FlvTag(8, 0, 0, AacRaw)>> \o FrameRun(6, 0),
            <<FlvTag(9, 0, 0, CroppedConfig)>>,
            <<FlvTag(9, 0, 0, TwoSpsConfig)>>,
            <<FlvTag(18, 0, 0, ScriptSized)>>,
            <<FlvTag(9, 0, 0, AvcConfig), FlvTag(18, 20, 0, ScriptSized)>>,
            <<FlvTag(18, 0, 0, ScriptSized), FlvTag(9, 20, 0, AvcConfig)>>,
            <<FlvTag(8, 0, 0, AacRaw), FlvTag(8, 23, 1, Mp3Frame), FlvTag(8, 46, 0, AacRaw)>>,
            <<FlvTag(8, 0, 0, AacRaw), FlvTag(5, 46, 0, <<1>>)>>,
            <<FlvTag(8, 0, 0, AacRaw), FlvTag(18, 46, 0, ScriptBad)>>}

\* the lists of tags fed to a consumer one of whose callbacks throws
ThrowLists ==
    { <<FlvTag(8, 0, 0, AacRaw)>>, <<FlvTag(9, 0, 0, AvcConfig)>>,
      <<FlvTag(9, 40, 0, NaluKey)>>, <<FlvTag(18, 0, 0, ScriptNull)>>,
      <<FlvTag(18, 0, 0, ScriptNull), FlvTag(8, 20, 0, Mp3Frame)>>,
      <<FlvTag(8, 0, 0, AacRaw), FlvTag(9, 0, 0, NaluKey)>> }

BadSignature == <<70, 76, 88, 1, 5, 0, 0, 0, 9, 0, 0, 0, 0>>

ShortHeader == <<70, 76, 86, 1, 5>>

\* a stream and the byteStart of the first call on it.  The tag loop starts
\* at byteStart and reads a previousTagSize and then a tag, so the caller of
\* an FLV file starts at 9, after the header; a caller that starts at 0 has
\* bytes 0..14 read as a previousTagSize and a tag header (of stream id 1
\* in a stream laid out from byte 15).
Sessions ==
    {[buf |-> FlvFile(flags, <<>>), start |-> st] : flags \in {0, 1, 4, 5}, st \in {0, 9}}
      \cup {[buf |-> BadSignature, start |-> st] : st \in {0, 9}}
      \cup {[buf |-> ShortHeader, start |-> 0]}
      \cup {[buf |-> FlvFile(5, tags), start |-> 9] : tags \in TagLists \ {<<>>}}
      \cup {[buf |-> FromByte15(5, <<t>>), start |-> 0] : t \in Catalogue}
      \cup {[buf |-> FlvFile(5, <<FlvTag(8, 0, 0, AacRaw), FlvTag(9, 0, 0, NaluKey)>>),
             start |-> 0]}

\* which callbacks the consumer has set, and which of them throws when it
\* is invoked
AllSet == [onData |-> TRUE, onMediaInfo |-> TRUE, onScriptData |-> TRUE, onTimestamp |-> TRUE,
           throws |-> "none"]

NoneSet == [onData |-> FALSE, onMediaInfo |-> FALSE, onScriptData |-> FALSE,
            onTimestamp |-> FALSE, throws |-> "none"]

\* a consumer one of whose callbacks throws
Throwers ==
    {[AllSet EXCEPT !.throws = name] :
        name \in {"onData", "onMediaInfo", "onScriptData", "onTimestamp"}}

\* the consumer sets all four callbacks, or none
Callbacks == {AllSet, NoneSet}

\* a stream, the byteStart of the first call, and the consumer
Setups ==
    {[buf |-> s.buf, start |-> s.start, cb |-> cb] : s \in Sessions, cb \in Callbacks}
      \cup {[buf |-> FlvFile(5, tags), start |-> 9, cb |-> cb] :
                tags \in ThrowLists, cb \in Throwers}

Ticks == {40 * k : k \in 0..MaxTick}

\* no function is being applied on its own
NoProbe == [fn |-> "none", done |-> FALSE]

\* no MSEController has been constructed
NoMse == [made |-> FALSE]

-----------------------------------------------------------------------------
(* The caller.                                                             *)

Init ==
    /\ \E s \in Setups :
          buf = s.buf /\ origin = s.start /\ byteStart = s.start /\ callbacks = s.cb
    /\ memory = buf
    /\ destroyed = FALSE
    /\ demuxer = InitDemuxer
    /\ byteEnd = 0
    /\ ret = NotCalled
    /\ trace = <<>>
    /\ clock = 0
    /\ lastCall = [start |-> 0, end |-> 0, cutTag |-> -1, first |-> FALSE, traced |-> 0]
    /\ probe = NoProbe
    /\ mse = NoMse

\* the ends the caller may pass: any from byteStart on for the first call,
\* then up to MaxChunk more bytes, or the rest
NextEnds ==
    {e \in (byteEnd + 1)..Len(buf) :
        e >= byteStart /\ (byteEnd = 0 \/ e <= byteEnd + MaxChunk \/ e = Len(buf))}

\* the caller passes the bytes received so far and restarts where the
\* previous call stopped; it stops calling after an error
ParseChunks ==
    /\ ~destroyed
    /\ ret.kind \in {"none", "consumed"}
    /\ \E end \in NextEnds, tick \in Ticks :
       \E r \in {parseChunks(demuxer, callbacks, trace, clock,
                               SubSeq(memory, 1, end), byteStart, end, tick)} :
              /\ demuxer' = r.dm
              /\ trace' = r.log
              /\ clock' = r.now
              /\ ret' = r.ret
              /\ byteEnd' = end
              /\ byteStart' = byteStart + r.ret.consumed
              /\ lastCall' = [start |-> byteStart, end |-> end, cutTag |-> r.cutTag,
                              first |-> demuxer._firstParse, traced |-> Len(trace)]
    /\ UNCHANGED <<buf, origin, callbacks, memory, destroyed, probe, mse>>

\* the caller, having passed the whole stream, reuses its input buffer: the
\* bytes the chunk was a view on are overwritten
ReuseBuffer ==
    /\ ret.kind = "consumed" /\ byteEnd = Len(buf)
    /\ memory = buf
    /\ memory' = [i \in 1..Len(buf) |-> IF buf[i] = 0 THEN 255 ELSE 0]
    /\ UNCHANGED <<buf, origin, callbacks, demuxer, byteStart, byteEnd, ret, trace, clock,
                   lastCall, destroyed, probe, mse>>

\* destroy(): its body is empty
Destroy ==
    /\ ~destroyed
    /\ destroyed' = TRUE
    /\ UNCHANGED <<buf, origin, callbacks, demuxer, byteStart, byteEnd, ret, trace, clock,
                   lastCall, memory, probe, mse>>

Next == ParseChunks \/ ReuseBuffer \/ Destroy

Spec == Init /\ [][Next]_vars

-----------------------------------------------------------------------------
(* The parsing functions applied on their own.                             *)

\* all sequences over the set S of length n
RECURSIVE SeqsOfLen(_, _)
SeqsOfLen(S, n) ==
    IF n = 0 THEN {<<>>}
    ELSE {Append(q, x) : q \in SeqsOfLen(S, n - 1), x \in S}

\* a reader on data whose cursor has advanced to bit pos
ReaderAt(data, pos) ==
    [BitReader(data) EXCEPT !.bitPosition = pos, !.bytePosition = pos \div 8]

\* the data readU is applied to: up to MaxReadBytes bytes of all-zero,
\* all-one and mixed bits
ReadData ==
    UNION {SeqsOfLen({0, 165, 255}, n) : n \in {0, 1, 2}}
       \cup SeqsOfLen({0, 165, 255}, MaxReadBytes)

ReadUProbes ==
    {pr \in [fn : {"readU"}, done : {FALSE}, data : ReadData, pos : 0..MaxReadPos,
              n : 0..32] :
        pr.pos <= 8 * Len(pr.data)}

\* bit i (from 1) of a suffix pattern
PatternBit(pat, i) ==
    CASE pat = "zeros" -> 0
      [] pat = "ones" -> 1
      [] pat = "mixed" -> i % 2

\* lead one bits, k zero bits, a one bit and k suffix bits
UeBits(lead, k, pat) ==
    [i \in 1..(lead + 2 * k + 1) |->
        IF i <= lead THEN 1
        ELSE IF i <= lead + k THEN 0
        ELSE IF i = lead + k + 1 THEN 1
        ELSE PatternBit(pat, i - lead - k - 1)]

\* the bits in bytes, MSB first, the last byte filled up with zero bits
Pack(bits) ==
    [j \in 1..((Len(bits) + 7) \div 8) |->
        LET bit(b) == IF 8 * (j - 1) + b <= Len(bits) THEN bits[8 * (j - 1) + b] ELSE 0
        IN  128 * bit(1) + 64 * bit(2) + 32 * bit(3) + 16 * bit(4)
              + 8 * bit(5) + 4 * bit(6) + 2 * bit(7) + bit(8)]

\* readUE is applied, behind `lead` bits already read, to codes of 0 to
\* MaxZeros leading zero bits.  Left out: 31 zero bits with a suffix of 0,
\* whose result in the source, (1 << 31) - 1 = -2147483649, has 33 bits
ReadUEProbes ==
    {pr \in [fn : {"readUE"}, done : {FALSE}, lead : {0, 3}, k : 0..MaxZeros,
              pat : {"zeros", "ones", "mixed"}] :
        ~(pr.k = 31 /\ pr.pat = "zeros")}

\* _ebsp2rbsp is applied to every sequence of up to MaxEbsp bytes 00, 01, 03
EbspProbes ==
    {[fn |-> "ebsp", done |-> FALSE, data |-> d] :
        d \in UNION {SeqsOfLen({0, 1, 3}, n) : n \in 0..MaxEbsp}}

\* the n binary digits of v, MSB first
Bin(v, n) == [i \in 1..n |-> (v \div Pow2(n - i)) % 2]

\* the number of digits of v >= 1
RECURSIVE Digits(_)
Digits(v) == IF v < 2 THEN 1 ELSE 1 + Digits(v \div 2)

\* the exp-Golomb code of v
UeCode(v) == [i \in 1..(Digits(v + 1) - 1) |-> 0] \o Bin(v + 1, Digits(v + 1))

\* the frame cropping offsets of an SPS: left, right, top, bottom
Crops ==
    [none |-> <<0, 0, 0, 0>>, bottom |-> <<0, 0, 0, 4>>, sides |-> <<4, 4, 0, 0>>,
     all |-> <<1, 2, 3, 4>>]

\* the bits of an SPS up to bit_depth_chroma_minus8: NAL header, profile,
\* constraint flags, level, seq_parameter_set_id 0 and, for a high profile,
\* the chroma format and the bit depths
SpsHead(f) ==
    Bin(103, 8) \o Bin(f.profile, 8) \o Bin(0, 8) \o Bin(30, 8) \o UeCode(0)
       \o (IF f.profile \in HighProfiles
           THEN UeCode(f.chroma) \o (IF f.chroma = 3 THEN <<f.plane>> ELSE <<>>)
                   \o UeCode(f.luma) \o UeCode(f.depthC)
           ELSE <<>>)

\* the bits of the whole SPS: no scaling matrix, pic_order_cnt_type 2, one
\* reference frame, no VUI, and the stop bit
SpsBits(f) ==
    SpsHead(f)
       \o (IF f.profile \in HighProfiles THEN <<0, 0>> ELSE <<>>)
       \o UeCode(0) \o UeCode(2) \o UeCode(1) \o <<0>>
       \o UeCode(f.w) \o UeCode(f.h)
       \o (IF f.mbs = 1 THEN <<1>> ELSE <<0, 0>>) \o <<1>>
       \o (IF f.crop = "none" THEN <<0>>
           ELSE <<1>> \o UeCode(Crops[f.crop][1]) \o UeCode(Crops[f.crop][2])
                     \o UeCode(Crops[f.crop][3]) \o UeCode(Crops[f.crop][4]))
       \o <<0>> \o <<1>>

\* the fields the SPS are made of; a profile outside the high family carries
\* no chroma format and no bit depth
SpsFields ==
    {f \in [profile : {66, 100}, chroma : 0..3, plane : {0, 1}, luma : {0, 2},
             depthC : {0, 2}, w : {0, 119}, h : {0, 67}, mbs : {0, 1},
             crop : {"none", "bottom", "sides", "all"}] :
        /\ f.chroma # 3 => f.plane = 0
        /\ f.profile = 66 => f.chroma = 1 /\ f.luma = 0 /\ f.depthC = 0}

\* _parseSPS is applied to each SPS, whole and with up to MaxCut bytes
\* missing at its end
SpsProbes ==
    {pr \in [fn : {"sps"}, done : {FALSE}, f : SpsFields, cut : 0..MaxCut] :
        Len(Pack(SpsBits(pr.f))) - pr.cut >= 5}

\* the composition times a video tag is given: around 0, around 2^23 and
\* up to 2^24 - 1, MaxCt of each
CompositionTimes ==
    (0..(MaxCt - 1)) \cup ((8388608 - MaxCt)..(8388607 + MaxCt))
       \cup ((16777216 - MaxCt)..16777215)

VideoProbes ==
    [fn : {"video"}, done : {FALSE}, ct : CompositionTimes, timestamp : {0, 1000}]

\* no session runs while a function is applied on its own
IdleSession ==
    /\ buf = <<>> /\ memory = <<>> /\ origin = 0 /\ byteStart = 0 /\ byteEnd = 0
    /\ callbacks = NoneSet
    /\ destroyed = FALSE
    /\ demuxer = InitDemuxer
    /\ ret = NotCalled
    /\ trace = <<>>
    /\ clock = 0
    /\ lastCall = [start |-> 0, end |-> 0, cutTag |-> -1, first |-> FALSE, traced |-> 0]

InitPure ==
    /\ IdleSession
    /\ probe \in ReadUProbes \cup ReadUEProbes \cup EbspProbes \cup SpsProbes
                   \cup VideoProbes
    /\ mse = NoMse

\* bitReader.readU(n) with the cursor at bit pos
ApplyReadU ==
    /\ probe.fn = "readU" /\ ~probe.done
    /\ probe' = [probe EXCEPT !.done = TRUE]
                    @@ [rd |-> readU(ReaderAt(probe.data, probe.pos), probe.n)]
    /\ UNCHANGED <<session, mse>>

\* bitReader.readUE() on an exp-Golomb code that follows `lead` bits
ApplyReadUE ==
    /\ probe.fn = "readUE" /\ ~probe.done
    /\ probe' = [probe EXCEPT !.done = TRUE]
                    @@ [rd |-> readUE(ReaderAt(Pack(UeBits(probe.lead, probe.k, probe.pat)),
                                               probe.lead))]
    /\ UNCHANGED <<session, mse>>

\* this._ebsp2rbsp(data)
ApplyEbsp2rbsp ==
    /\ probe.fn = "ebsp" /\ ~probe.done
    /\ probe' = [probe EXCEPT !.done = TRUE] @@ [out |-> _ebsp2rbsp(probe.data)]
    /\ UNCHANGED <<session, mse>>

\* this._parseSPS(sps) on a demuxer just constructed
ApplyParseSPS ==
    /\ probe.fn = "sps" /\ ~probe.done
    /\ LET sps == Pack(SpsBits(probe.f))
       IN  probe' = [probe EXCEPT !.done = TRUE]
                       @@ [sps |-> SubSeq(sps, 1, Len(sps) - probe.cut),
                           mi |-> _parseSPS(InitMediaInfo,
                                            SubSeq(sps, 1, Len(sps) - probe.cut))]
    /\ UNCHANGED <<session, mse>>

\* this._parseVideoData(data, 0, 6, timestamp) on a key-frame NAL tag with
\* the composition time ct, all callbacks set: the calls it makes
ApplyParseVideoData ==
    /\ probe.fn = "video" /\ ~probe.done
    /\ probe' = [probe EXCEPT !.done = TRUE]
                    @@ [log |-> _parseVideoData(Ctx(InitDemuxer, AllSet, <<>>, 0),
                                                <<23, 1>> \o U24(probe.ct) \o <<101>>,
                                                0, 6, probe.timestamp, 0).c.log]
    /\ UNCHANGED <<session, mse>>

NextPure ==
    ApplyReadU \/ ApplyReadUE \/ ApplyEbsp2rbsp \/ ApplyParseSPS \/ ApplyParseVideoData

SpecPure == InitPure /\ [][NextPure]_vars

-----------------------------------------------------------------------------
(* MSEController.  A media segment is {data, track, timestamp}; the model  *)
(* keeps the byteLength of its data and `id`, its rank among the segments  *)
(* received.  The fields of the controller the handlers below neither read *)
(* nor write (_mimeType, _mediaInfo, the codec strings) are left out.      *)

\* the byte lengths of the media segments
SegmentSizes == {1, 2}

\* sourceBuffer.appendBuffer takes the segment and starts updating, or
\* throws QuotaExceededError, or throws another error
AppendOutcomes == {"ok", "QuotaExceededError", "InvalidStateError"}

\* _onSourceOpen runs through, or addSourceBuffer throws, or the Transmuxer
\* constructor does
OpenOutcomes == {"ok", "addSourceBuffer", "Transmuxer"}

\* no appendBuffer call has been made
NoAppend == [seg |-> 0, waiting |-> {}, outcome |-> "none"]

\* the controller after its constructor.  _mediaSource is the readyState of
\* the MediaSource, "null" once it is released; _sourceBuffer and
\* _transmuxer tell whether the field is set; `updating` is the flag of the
\* SourceBuffer.  Observed: `received` counts the segments handed to
\* _onMediaSegment, lastAppend is the last appendBuffer call with the ids
\* waiting in _pendingData when it was made, `appended` the ids of the
\* segments the SourceBuffer took, `event` the last event dispatched.
MSEController ==
    [made |-> TRUE,
     _mediaSource |-> "closed",
     _sourceBuffer |-> FALSE,
     _transmuxer |-> FALSE,
     updating |-> FALSE,
     _isBufferFull |-> FALSE,
     _hasPendingData |-> FALSE,
     _pendingData |-> <<>>,
     _pendingDataSize |-> 0,
     _pendingAppendLength |-> 0,
     received |-> 0,
     lastAppend |-> NoAppend,
     appended |-> <<>>,
     event |-> "none"]

\* this.dispatchEvent(event)
dispatchEvent(m, event) == [m EXCEPT !.event = event]

\* the ids of the segments in _pendingData
Waiting(m) == {m._pendingData[i].id : i \in DOMAIN m._pendingData}

\* this._sourceBuffer.appendBuffer(data): a SourceBuffer that is updating
\* throws InvalidStateError
appendBuffer(m, data, outcome) ==
    LET result == IF m.updating THEN "InvalidStateError" ELSE outcome
    IN  [m EXCEPT !.lastAppend = [seg |-> data.id, waiting |-> Waiting(m),
                                  outcome |-> result],
                  !.updating = @ \/ result = "ok",
                  !.appended = IF result = "ok" THEN Append(@, data.id) ELSE @]

_onBufferFull(m) == dispatchEvent([m EXCEPT !._isBufferFull = TRUE], "BUFFER_FULL")

_onSourceOpen(m, outcome) ==
    CASE outcome = "ok" ->
            dispatchEvent([m EXCEPT !._sourceBuffer = TRUE, !._transmuxer = TRUE],
                          "MSE_SOURCE_OPEN")
      [] outcome = "addSourceBuffer" -> dispatchEvent(m, "ERROR")
      [] outcome = "Transmuxer" -> dispatchEvent([m EXCEPT !._sourceBuffer = TRUE], "ERROR")

\* the segment is put at the end of _pendingData
pushPending(m, data) ==
    [m EXCEPT !._hasPendingData = TRUE,
              !._pendingData = Append(@, data),
              !._pendingDataSize = @ + data.byteLength]

_onMediaSegment(m, data, outcome) ==
    IF ~m._sourceBuffer \/ m.updating THEN pushPending(m, data)
    ELSE LET called == appendBuffer(m, data, outcome)
         IN  CASE called.lastAppend.outcome = "ok" ->
                     [called EXCEPT !._pendingAppendLength = data.byteLength]
               [] called.lastAppend.outcome = "QuotaExceededError" ->
                     _onBufferFull(pushPending(called, data))
               [] OTHER -> dispatchEvent(pushPending(called, data), "ERROR")

\* the segment is put back at the front of _pendingData
unshiftPending(m, data) ==
    [m EXCEPT !._hasPendingData = TRUE,
              !._pendingData = <<data>> \o @,
              !._pendingDataSize = @ + data.byteLength]

_appendPendingData(m, outcome) ==
    IF ~m._sourceBuffer \/ m.updating \/ Len(m._pendingData) = 0 THEN m
    ELSE LET data == Head(m._pendingData)
             shifted == [m EXCEPT !._pendingData = Tail(@),
                                  !._pendingDataSize = @ - data.byteLength]
             called == appendBuffer(shifted, data, outcome)
         IN  CASE called.lastAppend.outcome = "ok" ->
                     [called EXCEPT !._pendingAppendLength = data.byteLength]
               [] called.lastAppend.outcome = "QuotaExceededError" ->
                     _onBufferFull(unshiftPending(called, data))
               [] OTHER -> unshiftPending(called, data)

_onUpdateEnd(m, outcome) ==
    LET reset == [m EXCEPT !._isBufferFull = FALSE, !._pendingAppendLength = 0]
    IN  dispatchEvent(IF reset._hasPendingData
                      THEN _appendPendingData([reset EXCEPT !._hasPendingData = FALSE],
                                              outcome)
                      ELSE reset,
                      "MSE_UPDATE_END")

\* destroy(): the listeners are removed, the fields released
mseDestroy(m) ==
    [m EXCEPT !._transmuxer = FALSE,
              !._sourceBuffer = FALSE,
              !._mediaSource = "null",
              !._pendingData = <<>>,
              !._pendingDataSize = 0]

InitMse ==
    /\ IdleSession
    /\ probe = NoProbe
    /\ mse = MSEController

\* the MediaSource opens and fires sourceopen
SourceOpen ==
    /\ mse._mediaSource = "closed"
    /\ \E outcome \in OpenOutcomes :
          mse' = _onSourceOpen([mse EXCEPT !._mediaSource = "open"], outcome)
    /\ UNCHANGED <<session, probe>>

\* the transmuxer hands over the next media segment
MediaSegment ==
    /\ mse._transmuxer
    /\ mse.received < MaxSegments
    /\ \E size \in SegmentSizes, outcome \in AppendOutcomes :
          mse' = _onMediaSegment([mse EXCEPT !.received = @ + 1],
                                 [id |-> mse.received + 1, byteLength |-> size], outcome)
    /\ UNCHANGED <<session, probe>>

\* the SourceBuffer has taken the segment in: it stops updating and fires
\* updateend
UpdateEnd ==
    /\ mse._sourceBuffer
    /\ mse.updating
    /\ \E outcome \in AppendOutcomes :
          mse' = _onUpdateEnd([mse EXCEPT !.updating = FALSE], outcome)
    /\ UNCHANGED <<session, probe>>

MseDestroy ==
    /\ mse._mediaSource # "null"
    /\ mse' = mseDestroy(mse)
    /\ UNCHANGED <<session, probe>>

NextMse == SourceOpen \/ MediaSegment \/ UpdateEnd \/ MseDestroy

SpecMse == InitMse /\ [][NextMse]_vars

\* every appendBuffer that succeeds is followed by its updateend
SpecMseFair == InitMse /\ [][NextMse]_vars /\ WF_vars(UpdateEnd)

\* the byteLength of the queued segments, summed
PendingBytes == SumSeq([i \in DOMAIN mse._pendingData |-> mse._pendingData[i].byteLength])

\* bit k of the data, counting from the most significant bit of byte 0
BitAt(data, k) == (data[(k \div 8) + 1] \div Pow2(7 - (k % 8))) % 2

\* the number whose binary digits are the n bits from bit pos on
RECURSIVE NextBits(_, _, _)
NextBits(data, pos, n) ==
    IF n = 0 THEN 0
    ELSE 2 * NextBits(data, pos, n - 1) + BitAt(data, pos + n - 1)

\* the probed SPS holds all its fields: every bit before the stop bit
SpsWhole(pr) == 8 * Len(pr.sps) >= Len(SpsBits(pr.f)) - 1

\* the probed SPS holds its chroma format and bit depths
SpsHeadWhole(pr) == 8 * Len(pr.sps) >= Len(SpsHead(pr.f))

\* the chroma format and pixel format named for chroma_format_idc and the
\* luma bit depth
ChromaName(idc) == CASE idc = 2 -> "4:2:2" [] idc = 3 -> "4:4:4" [] OTHER -> "4:2:0"

PixelName(idc, luma) ==
    CASE idc = 2 -> IF luma > 0 THEN "yuv422p10le" ELSE "yuv422p"
      [] idc = 3 -> IF luma > 0 THEN "yuv444p10le" ELSE "yuv444p"
      [] OTHER -> IF luma > 0 THEN "yuv420p10le" ELSE "yuv420p"

\* byte j (from 1) of the input is a 03 that follows two 00 bytes
IsEmulationByte(data, j) ==
    j >= 3 /\ data[j] = 3 /\ data[j - 1] = 0 /\ data[j - 2] = 0

\* the first n bytes of the input without its emulation bytes
RECURSIVE WithoutEmulationBytes(_, _)
WithoutEmulationBytes(data, n) ==
    IF n = 0 THEN <<>>
    ELSE IF IsEmulationByte(data, n) THEN WithoutEmulationBytes(data, n - 1)
    ELSE Append(WithoutEmulationBytes(data, n - 1), data[n])

\* val is 2^k - 1 + suffix, the suffix being the k <= 32 bits from bit pos on:
\* compared in two halves of 16 lower and up to 17 upper bits
IsUeValue(val, data, pos, k) ==
    LET low == IF k < 16 THEN k ELSE 16
        suffixHigh == NextBits(data, pos, k - low)
        suffixLow == NextBits(data, pos + k - low, low)
        lowSum == (Pow2(low) - 1) + suffixLow
    IN  /\ val >= 0
        /\ val % 65536 = lowSum % 65536
        /\ val \div 65536 = (Pow2(k - low) - 1) + suffixHigh + (lowSum \div 65536)

\* val is the non-negative number the n <= 32 bits from bit pos on spell:
\* compared in two halves, the upper bits and the 16 lower ones
Spells(val, data, pos, n) ==
    LET low == IF n < 16 THEN n ELSE 16
    IN  /\ val >= 0
        /\ val \div Pow2(low) = NextBits(data, pos, n - low)
        /\ val % Pow2(low) = NextBits(data, pos + n - low, low)

-----------------------------------------------------------------------------
(* What the trace and the last call show.                                  *)

IsData(e) == e.cb = "onData"

IsMediaInfo(e) == e.cb = "onMediaInfo"

IsTag(e) == e.cb = "tag"

\* the onData events as the consumer sees them
RECURSIVE DataSeen(_)
DataSeen(log) ==
    IF log = <<>> THEN <<>>
    ELSE (IF IsData(Head(log))
          THEN <<<<Head(log).track, Head(log).bytes, Head(log).pts, Head(log).dts>>>>
          ELSE <<>>) \o DataSeen(Tail(log))

\* the stream parsed by one single call on a fresh demuxer
OneShot == parseChunks(InitDemuxer, callbacks, <<>>, 0, buf, origin, Len(buf), 0)

\* the first call found the signature and at least 9 bytes
HeaderAccepted == lastCall.end >= 9 /\ SubSeq(buf, 1, 3) = <<70, 76, 86>>

\* the positions in the trace written by the last call
LastCallEvents == (lastCall.traced + 1)..Len(trace)

\* the tag under which the event at position i was produced
OwnerTag(i) == CHOOSE j \in 1..i : IsTag(trace[j]) /\ \A k \in (j + 1)..i : ~IsTag(trace[k])

\* a tag of stream 0 that carries AAC or MP3 audio
IsCodedAudio(t) ==
    /\ t.tagType = 8 /\ t.streamId = 0 /\ t.dataSize >= 1
    /\ (t.payload[1] \div 16) \in {10, 2}

\* a tag of stream 0 that announces an AVC decoder configuration record
IsAvcConfig(t) ==
    /\ t.tagType = 9 /\ t.streamId = 0 /\ t.dataSize >= 2
    /\ t.payload[1] % 16 = 7 /\ t.payload[1] \div 16 # 5
    /\ t.payload[2] = 0

IsScript(t) == t.tagType = 18 /\ t.streamId = 0

\* the record's SPS entries, as declared, end at position o of the payload
RECURSIVE AfterSpsEntries(_, _, _)
AfterSpsEntries(payload, o, n) ==
    IF n = 0 THEN o
    ELSE IF o + 2 > Len(payload) THEN Len(payload) + 1
    ELSE AfterSpsEntries(payload, o + 2 + (payload[o + 1] * 256 + payload[o + 2]), n - 1)

\* the announced record is whole: six fixed bytes, its SPS entries, and the
\* PPS count after them
IsWholeAvcConfig(t) ==
    /\ IsAvcConfig(t)
    /\ t.dataSize >= 5 + 7
    /\ AfterSpsEntries(t.payload, 11, t.payload[11] % 32) < Len(t.payload)

\* the tag at position i is the first AAC or MP3 tag of the trace
IsFirstCodedAudio(i) ==
    IsCodedAudio(trace[i]) /\ \A j \in 1..(i - 1) : ~(IsTag(trace[j]) /\ IsCodedAudio(trace[j]))

\* the three audio fields of a media info
AudioFields(mi) == <<mi.audioCodec, mi.audioSampleRate, mi.audioChannelCount>>

\* the three audio fields the header byte of an AAC or MP3 tag announces
AnnouncedAudio(t) ==
    <<IF t.payload[1] \div 16 = 10 THEN "aac" ELSE "mp3",
      <<5500, 11025, 22050, 44100>>[((t.payload[1] \div 4) % 4) + 1],
      (t.payload[1] % 2) + 1>>

\* the whole record's first SPS and first PPS, as views on the input
FirstSps(t) == View(t.at + 15 + 13, t.payload[12] * 256 + t.payload[13])

FirstPps(t) ==
    LET o == AfterSpsEntries(t.payload, 11, t.payload[11] % 32)
    IN  View(t.at + 15 + o + 3, t.payload[o + 2] * 256 + t.payload[o + 3])

\* the whole record carries at least one SPS and one PPS, and its first SPS
\* and first PPS lie inside the payload
HasFirstSets(t) ==
    /\ IsWholeAvcConfig(t)
    /\ t.payload[11] % 32 >= 1
    /\ LET o == AfterSpsEntries(t.payload, 11, t.payload[11] % 32)
       IN  /\ t.payload[o + 1] >= 1
           /\ o + 3 <= Len(t.payload)
           /\ FirstPps(t).length >= 1
           /\ o + 3 + FirstPps(t).length <= Len(t.payload)
    /\ FirstSps(t).length >= 1

\* the media info the first SPS alone gives, from that before the tag
FromFirstSps(t) ==
    _parseSPS(t.before._mediaInfo,
              SubSeq(t.payload, 14, 13 + FirstSps(t).length))

\* the script tag's name and value both decode
IsDecodableScript(t) ==
    /\ IsScript(t)
    /\ LET name == _parseAMFData(t.payload, 0, t.dataSize)
       IN  /\ ~name.err
           /\ ~_parseAMFData(t.payload, name.consumed, t.dataSize - name.consumed).err

TagsSeen == {i \in 1..Len(trace) : IsTag(trace[i])}

\* the events produced under the tag at position i: up to the next tag
TagEvents(i) ==
    {k \in (i + 1)..Len(trace) : \A j \in (i + 1)..k : ~IsTag(trace[j])}

\* the tag at position i is the last one of the trace
IsLastTag(i) == \A j \in (i + 1)..Len(trace) : ~IsTag(trace[j])

\* the demuxer's fields once the tag at position i has been dealt with: those
\* the next tag found or, after the last tag, those of the demuxer now
AfterTag(i) ==
    IF IsLastTag(i) THEN demuxer
    ELSE trace[CHOOSE j \in (i + 1)..Len(trace) :
                  IsTag(trace[j]) /\ \A k \in (i + 1)..(j - 1) : ~IsTag(trace[k])].before

\* where the tag at position i ends in the stream
TagEnd(t) == t.at + 4 + 11 + t.dataSize

\* the loop went on behind the tag at position i: the next tag the same
\* call found begins there; a later call, and the caller after the last tag,
\* restart at or behind it
ContinuedBehind(i) ==
    IF IsLastTag(i) THEN byteStart >= TagEnd(trace[i])
    ELSE \E j \in (i + 1)..Len(trace) :
            /\ IsTag(trace[j]) /\ \A k \in (i + 1)..(j - 1) : ~IsTag(trace[k])
            /\ trace[j].at >= TagEnd(trace[i])
            /\ i \in LastCallEvents => trace[j].at = TagEnd(trace[i])

\* a tag of stream 0 that only raises a warning: its type is unknown, or it
\* is a script tag whose name or value does not decode
IsWarningOnly(t) ==
    /\ t.streamId = 0
    /\ \/ t.tagType \notin {8, 9, 18}
       \/ t.tagType = 18 /\ ~IsDecodableScript(t)

\* the value a decodable script tag carries
ScriptValue(t) ==
    _parseAMFData(t.payload, _parseAMFData(t.payload, 0, t.dataSize).consumed,
                  t.dataSize - _parseAMFData(t.payload, 0, t.dataSize).consumed).data

\* the script tag carries metadata.width and metadata.height
CarriesSize(t) ==
    /\ IsDecodableScript(t)
    /\ AmfLookup(ScriptValue(t).props, KeyWidth).kind = "number"
    /\ AmfLookup(ScriptValue(t).props, KeyHeight).kind = "number"

\* the onScriptData events produced under the tag at position i
ScriptDataEvents(i) == {k \in TagEvents(i) : trace[k].cb = "onScriptData"}

\* the onData events produced under the tag at position i
DataEvents(i) == {k \in TagEvents(i) : IsData(trace[k])}

\* the onTimestamp events produced under the tag at position i
TimestampEvents(i) == {k \in TagEvents(i) : trace[k].cb = "onTimestamp"}

\* a complete audio tag of stream 0 with at least the audio header byte
IsAudio(t) == t.tagType = 8 /\ t.streamId = 0 /\ t.dataSize >= 1

\* the bytes a stored view shows now, and the bytes it showed when it was made
ViewBytes(v) == SubSeq(memory, v.offset + 1, v.offset + v.length)

ViewBytesAsParsed(v) == SubSeq(buf, v.offset + 1, v.offset + v.length)

IsVideo(t) == t.tagType = 9 /\ t.streamId = 0 /\ t.dataSize >= 1

\* a video tag of stream 0 that announces AVC NAL data (avcPacketType 1)
IsNalu(t) ==
    /\ IsVideo(t) /\ t.dataSize >= 2
    /\ t.payload[1] % 16 = 7 /\ t.payload[1] \div 16 # 5
    /\ t.payload[2] = 1

\* the 24-bit composition time of a NAL tag, sign-extended; the bytes the
\* payload does not have count as 0
CompositionTime(t) ==
    LET ct == readUint24(t.payload, 2)
    IN  IF ct >= 8388608 THEN ct - 16777216 ELSE ct

\* an SPS had been parsed, and had set the dimensions, before the tag at i
SizedBySps(i) ==
    /\ trace[i].before._mediaInfo.sps # NullView
    /\ trace[i].before._mediaInfo.width # Null

MediaInfosSeen == {i \in 1..Len(trace) : IsMediaInfo(trace[i])}

-----------------------------------------------------------------------------
(* Claims.                                                                 *)

\* C1: however the stream is cut into calls, each restarting at the previous
\* byteStart plus the consumed count, the onData events (track, bytes, pts,
\* dts) are those of parsing the stream in one call.
C1_CutsGiveSameData ==
    (byteEnd = Len(buf) /\ ret.kind = "consumed") => DataSeen(trace) = DataSeen(OneShot.log)

\* C2: when a tag's payload does not fit before byteEnd, the consumed count
\* stops just before that tag's previousTagSize.
C2_RewindsBeforeCutTag ==
    (ret.kind = "consumed" /\ lastCall.cutTag >= 0)
        => ret.consumed = lastCall.cutTag - lastCall.start

\* C3: when the chunk ends inside a tag's payload, the consumed count is
\* strictly less than byteEnd - byteStart and no callback is made for that
\* tag: every event of the call belongs to a tag that lies before it.
C3_CutTagNotDelivered ==
    (ret.kind = "consumed" /\ lastCall.cutTag >= 0 /\ lastCall.end > lastCall.cutTag + 15)
        => /\ ret.consumed < lastCall.end - lastCall.start
           /\ \A i \in LastCallEvents :
                 LET t == trace[OwnerTag(i)]
                 IN  t.at + 15 + t.dataSize <= lastCall.cutTag

C3_Witness ==
    /\ ret.kind = "consumed" /\ lastCall.cutTag >= 0
    /\ lastCall.end > lastCall.cutTag + 15
    /\ \E i \in LastCallEvents : IsData(trace[i])

\* C4: the first call on a valid header sets hasAudio and hasVideo from the
\* flags, reads no byte of the header as a tag (the first previousTagSize it
\* reads is at byte 9 or later), and on the 13 bytes alone, from byteStart 0,
\* returns 13 without a callback.
C4_HeaderSkipped ==
    (lastCall.first /\ HeaderAccepted /\ ret.kind = "consumed")
        => /\ demuxer._hasAudio = ((buf[5] \div 4) % 2 = 1)
           /\ demuxer._hasVideo = (buf[5] % 2 = 1)
           /\ demuxer._mediaInfo.hasAudio = demuxer._hasAudio
           /\ demuxer._mediaInfo.hasVideo = demuxer._hasVideo
           /\ \A i \in TagsSeen : trace[i].at >= 9
           /\ (lastCall.start = 0 /\ lastCall.end = 13)
                 => (ret.consumed = 13 /\ trace = <<>>)

\* C5: a first call without the signature, or with fewer than 9 bytes,
\* returns FORMAT_ERROR, makes no callback and leaves hasAudio, hasVideo and
\* the media info as constructed.
C5_BadHeaderRejected ==
    (lastCall.first /\ ~HeaderAccepted)
        => /\ ret = FormatError
           /\ trace = <<>>
           /\ ~demuxer._hasAudio /\ ~demuxer._hasVideo
           /\ demuxer._mediaInfo = InitMediaInfo

C5_Witness ==
    /\ lastCall.first /\ lastCall.end >= 9 /\ buf[3] # 86 /\ buf[5] = 5
    /\ ret = FormatError

\* C6: once the header is accepted no tag's content makes parseChunks return
\* FORMAT_ERROR.
C6_NoFormatErrorAfterHeader ==
    ret = FormatError => (lastCall.first /\ ~HeaderAccepted)

C8_ConfigDispatched ==
    (callbacks.onMediaInfo /\ ret.kind = "consumed")
        => \A i \in TagsSeen :
              IsWholeAvcConfig(trace[i])
                 => \E j \in MediaInfosSeen :
                       /\ trace[j].info.videoCodec = "avc"
                       /\ trace[j].info.profile = trace[i].payload[7]
                       /\ trace[j].info.level = trace[i].payload[9]

\* C9: once the media info has been emitted, a call emits it again exactly
\* when the smoothed frame rate has moved more than 0.5 from the last
\* reported value, which then becomes the reported value.
C9_ReemittedOnRateChange ==
    [][(MediaInfosSeen # {} /\ callbacks.onMediaInfo)
         => ((Len(SelectSeq(trace', IsMediaInfo)) > Len(SelectSeq(trace, IsMediaInfo)))
               <=> (demuxer'._mediaInfo._lastReportedFrameRate
                       # demuxer._mediaInfo._lastReportedFrameRate))]_vars

\* C11: a script tag that carries metadata.width and metadata.height sets
\* the media info's width and height to them when no SPS has set them, and
\* leaves the width and height an SPS has set as they are.
C11_SpsSizeKept ==
    \A i \in TagsSeen :
       CarriesSize(trace[i])
          => IF SizedBySps(i)
             THEN /\ AfterTag(i)._mediaInfo.width = trace[i].before._mediaInfo.width
                  /\ AfterTag(i)._mediaInfo.height = trace[i].before._mediaInfo.height
             ELSE /\ AfterTag(i)._mediaInfo.width
                        = AmfLookup(ScriptValue(trace[i]).props, KeyWidth).num
                  /\ AfterTag(i)._mediaInfo.height
                        = AmfLookup(ScriptValue(trace[i]).props, KeyHeight).num

\* C12: with onScriptData set, each complete script tag of stream 0 produces
\* exactly one onScriptData call; for a tag that decodes, the call carries the
\* decoded value, which is also the media info's metadata afterwards.
C12_ScriptDataOncePerTag ==
    callbacks.onScriptData
       => \A i \in TagsSeen :
             IsScript(trace[i])
                => /\ Cardinality(ScriptDataEvents(i)) = 1
                   /\ IsDecodableScript(trace[i])
                        => /\ \A k \in ScriptDataEvents(i) :
                                 trace[k].metadata = ScriptValue(trace[i])
                           /\ AfterTag(i)._mediaInfo.metadata = ScriptValue(trace[i])

\* C12 as amended: the same for each complete script tag whose name and
\* value decode.
C12_ScriptDataOncePerDecodedTag ==
    callbacks.onScriptData
       => \A i \in TagsSeen :
             IsDecodableScript(trace[i])
                => /\ Cardinality(ScriptDataEvents(i)) = 1
                   /\ \A k \in ScriptDataEvents(i) :
                         trace[k].metadata = ScriptValue(trace[i])
                   /\ AfterTag(i)._mediaInfo.metadata = ScriptValue(trace[i])

C12_Witness ==
    /\ callbacks.onScriptData
    /\ \E i \in TagsSeen :
          /\ CarriesSize(trace[i])
          /\ \E k \in ScriptDataEvents(i) : trace[k].metadata.props # <<>>
          /\ demuxer._mediaInfo.metadata = ScriptValue(trace[i])

\* C13: a call during which a consumer callback threw ends with that
\* exception reaching the caller, never with a normal return.
C13_CallbackThrowPropagates ==
    (\E k \in LastCallEvents : trace[k].cb = callbacks.throws) => ret.kind = "thrown"

\* C14: with onData set (and onMediaInfo returning), every complete audio tag
\* of stream 0 with at least one byte, whatever its sound format, produces
\* exactly one onData call on the audio track, with the payload after the
\* header byte and pts = dts = the tag's timestamp.
C14_EveryAudioTagForwarded ==
    (callbacks.onData /\ callbacks.throws # "onMediaInfo")
       => \A i \in TagsSeen :
             IsAudio(trace[i])
                => /\ Cardinality(DataEvents(i)) = 1
                   /\ \A k \in DataEvents(i) :
                         /\ trace[k].track = "audio"
                         /\ trace[k].bytes = Tail(trace[i].payload)
                         /\ trace[k].pts = trace[i].timestamp
                         /\ trace[k].dts = trace[i].timestamp

\* C15: every complete AVC NAL tag (codecId 7, frameType not 5,
\* avcPacketType 1) produces one onData on the video track with the bytes
\* after the 5-byte header, dts the tag's timestamp and pts dts plus the
\* sign-extended composition time, then one onTimestamp with the same pts and
\* dts, and sets hasKeyFrame when frameType is 1; every other video tag
\* produces neither call.  (Callbacks that are set; onData and onMediaInfo
\* returning.)
C15_NaluForwarded ==
    callbacks.throws \notin {"onData", "onMediaInfo"}
       => \A i \in TagsSeen :
             /\ IsNalu(trace[i])
                  => /\ callbacks.onData
                          => /\ Cardinality(DataEvents(i)) = 1
                             /\ \A k \in DataEvents(i) :
                                   /\ trace[k].track = "video"
                                   /\ trace[k].bytes
                                         = SubSeq(trace[i].payload, 6, trace[i].dataSize)
                                   /\ trace[k].dts = trace[i].timestamp
                                   /\ trace[k].pts
                                         = trace[i].timestamp + CompositionTime(trace[i])
                     /\ callbacks.onTimestamp
                          => /\ Cardinality(TimestampEvents(i)) = 1
                             /\ \A k \in TimestampEvents(i) :
                                   /\ trace[k].dts = trace[i].timestamp
                                   /\ trace[k].pts
                                         = trace[i].timestamp + CompositionTime(trace[i])
                                   /\ \A d \in DataEvents(i) : d < k
                     /\ trace[i].payload[1] \div 16 = 1 => AfterTag(i)._hasKeyFrame
             /\ (IsVideo(trace[i]) /\ ~IsNalu(trace[i]))
                  => DataEvents(i) = {} /\ TimestampEvents(i) = {}

\* C16: the sps and pps stored in the media info are owned copies: whatever
\* the caller does to the input buffer after parseChunks returns, they still
\* hold the bytes of the NAL units that were parsed
C16_ParameterSetsOwned ==
    /\ demuxer._mediaInfo.sps # NullView
          => ViewBytes(demuxer._mediaInfo.sps) = ViewBytesAsParsed(demuxer._mediaInfo.sps)
    /\ demuxer._mediaInfo.pps # NullView
          => ViewBytes(demuxer._mediaInfo.pps) = ViewBytesAsParsed(demuxer._mediaInfo.pps)

\* C17: after destroy() the demuxer holds no sps or pps slice, no frame-rate
\* sample and no metadata value
C17_DestroyReleases ==
    destroyed
       => /\ demuxer._mediaInfo.sps = NullView
          /\ demuxer._mediaInfo.pps = NullView
          /\ demuxer._frameRateSamples = <<>>
          /\ demuxer._mediaInfo.metadata = AmfNull
          /\ demuxer._metadata = AmfNull

\* C18: a complete tag whose streamId is not 0 is skipped: no callback is
\* invoked for it, the loop continues with the tag behind it, and the time
\* range, the byte counters and the media info are as they were before it
\* (the data rates being those the end of a call computes from them)
C18_OtherStreamSkipped ==
    \A i \in TagsSeen :
       trace[i].streamId # 0
          => /\ TagEvents(i) = {}
             /\ ContinuedBehind(i)
             /\ AfterTag(i) \in {trace[i].before, _calculateBitrates(trace[i].before)}

\* a tag of another stream was skipped between two tags of stream 0, at a
\* timestamp of its own
C18_Witness ==
    \E i \in TagsSeen :
       /\ trace[i].streamId # 0 /\ ~IsLastTag(i) /\ i \in LastCallEvents
       /\ trace[i].before._endTime # Null
       /\ trace[i].before._endTime # trace[i].timestamp
       /\ trace[i].before._audioBytes > 0

\* C19: a tag that only raises a warning (unknown tag type, or a script tag
\* whose AMF data does not decode) changes nothing but the position: no
\* callback is invoked, parsing continues behind it, and the time range, the
\* byte counters, the data rates and the media info are those the stream
\* without the tag would give
C19_WarningTagNoEffect ==
    \A i \in TagsSeen :
       IsWarningOnly(trace[i])
          => /\ TagEvents(i) = {}
             /\ ContinuedBehind(i)
             /\ AfterTag(i) \in {trace[i].before, _calculateBitrates(trace[i].before)}

\* C20: once the media info's width and height are set, by an SPS (with or
\* without frame cropping) or by script data, both are greater than 0
C20_DimensionsPositive ==
    /\ demuxer._mediaInfo.width # Null => demuxer._mediaInfo.width > 0
    /\ demuxer._mediaInfo.height # Null => demuxer._mediaInfo.height > 0

\* C21: after a configuration record with at least one SPS and one PPS, the
\* media info's sps is the record's first SPS and its pps the first PPS, and
\* the size, chroma and bit-depth fields are those the first SPS gives, even
\* when the record carries several
C21_FirstParameterSets ==
    \A i \in TagsSeen :
       HasFirstSets(trace[i])
          => /\ AfterTag(i)._mediaInfo.sps = FirstSps(trace[i])
             /\ AfterTag(i)._mediaInfo.pps = FirstPps(trace[i])
             /\ AfterTag(i)._mediaInfo.width = FromFirstSps(trace[i]).width
             /\ AfterTag(i)._mediaInfo.height = FromFirstSps(trace[i]).height
             /\ AfterTag(i)._mediaInfo.chromaFormat = FromFirstSps(trace[i]).chromaFormat
             /\ AfterTag(i)._mediaInfo.bitDepth = FromFirstSps(trace[i]).bitDepth
             /\ AfterTag(i)._mediaInfo.pix_fmt = FromFirstSps(trace[i]).pix_fmt

\* C23: readU(n), 0 <= n <= 32, with at least n bits left returns the number
\* the next n bits spell MSB-first, a value in 0..2^n-1, and advances the
\* cursor by n bits; with fewer than n bits left it fails
C23_ReadUValue ==
    (probe.fn = "readU" /\ probe.done)
       => IF probe.pos + probe.n <= 8 * Len(probe.data)
          THEN /\ ~probe.rd.err
               /\ Spells(probe.rd.val, probe.data, probe.pos, probe.n)
               /\ probe.rd.bitPosition = probe.pos + probe.n
          ELSE probe.rd.err

\* C24: readUE on k zero bits, a 1 bit and k suffix bits returns
\* 2^k - 1 + suffix for every k from 0 to 32, and fails on more than 32
\* leading zero bits
C24_ReadUEValue ==
    (probe.fn = "readUE" /\ probe.done)
       => IF probe.k <= 32
          THEN /\ ~probe.rd.err
               /\ IsUeValue(probe.rd.val, probe.rd.data, probe.lead + probe.k + 1, probe.k)
          ELSE probe.rd.err

\* C25: _ebsp2rbsp returns its input without exactly the 03 bytes that follow
\* two 00 bytes of the input, every other byte kept in order; the output is
\* no longer than the input, and equal to it when the input has no 00 00 03
C25_EmulationBytesRemoved ==
    (probe.fn = "ebsp" /\ probe.done)
       => /\ probe.out = WithoutEmulationBytes(probe.data, Len(probe.data))
          /\ Len(probe.out) <= Len(probe.data)
          /\ (\A j \in 1..Len(probe.data) : ~IsEmulationByte(probe.data, j))
                => probe.out = probe.data

\* an input with two emulation bytes, one of them its last byte, has been
\* converted
C25_Witness ==
    /\ probe.fn = "ebsp" /\ probe.done
    /\ probe.data = <<0, 0, 3, 0, 0, 3>>
    /\ probe.out = <<0, 0, 0, 0>>

\* C22: when the bit reader runs past the end of the SPS, what was parsed
\* before is kept: a chroma format and bit depths read before the end show
\* in chromaFormat, bitDepth and pix_fmt
C22_PartialSpsKept ==
    (probe.fn = "sps" /\ probe.done /\ ~SpsWhole(probe) /\ SpsHeadWhole(probe)
        /\ probe.f.profile \in HighProfiles)
       => /\ probe.mi.chromaFormat = ChromaName(probe.f.chroma)
          /\ probe.mi.bitDepth = probe.f.luma + 8
          /\ probe.mi.pix_fmt = PixelName(probe.f.chroma, probe.f.luma)

\* C26: for a completely parsed SPS, width is
\* (pic_width_in_mbs_minus1 + 1) * 16 - 2 * (crop_left + crop_right) and
\* height is (2 - frame_mbs_only_flag) * (pic_height_in_map_units_minus1 + 1)
\* * 16 - 2 * (crop_top + crop_bottom), the offsets being 0 without cropping
C26_SpsDimensions ==
    (probe.fn = "sps" /\ probe.done /\ SpsWhole(probe))
       => /\ probe.mi.width
               = (probe.f.w + 1) * 16
                    - 2 * (Crops[probe.f.crop][1] + Crops[probe.f.crop][2])
          /\ probe.mi.height
               = (2 - probe.f.mbs) * (probe.f.h + 1) * 16
                    - 2 * (Crops[probe.f.crop][3] + Crops[probe.f.crop][4])

\* the SPS of 120x68 macroblocks with crop_bottom 4 has been parsed: 1920x1080
C26_Witness ==
    /\ probe.fn = "sps" /\ probe.done /\ SpsWhole(probe)
    /\ probe.f.w = 119 /\ probe.f.h = 67 /\ probe.f.mbs = 1 /\ probe.f.crop = "bottom"
    /\ probe.mi.width = 1920 /\ probe.mi.height = 1080

\* C27: after a completely parsed SPS, chromaFormat and pix_fmt are those
\* named for (chroma_format_idc, luma bit depth), whatever
\* separate_colour_plane_flag, bitDepth is bit_depth_luma_minus8 + 8, and a
\* profile outside the high family gives "4:2:0", 8, yuv420p
C27_PixelFormat ==
    (probe.fn = "sps" /\ probe.done /\ SpsWhole(probe))
       => /\ probe.mi.chromaFormat = ChromaName(probe.f.chroma)
          /\ probe.mi.pix_fmt = PixelName(probe.f.chroma, probe.f.luma)
          /\ probe.mi.bitDepth = probe.f.luma + 8
          /\ probe.mi.bitDepth >= 8
          /\ probe.f.profile \notin HighProfiles
                => /\ probe.mi.chromaFormat = "4:2:0"
                   /\ probe.mi.bitDepth = 8
                   /\ probe.mi.pix_fmt = "yuv420p"

\* a 4:4:4 SPS with separate colour planes, 10-bit luma and 8-bit chroma
\* has been parsed
C27_Witness ==
    /\ probe.fn = "sps" /\ probe.done /\ SpsWhole(probe)
    /\ probe.f.profile = 100 /\ probe.f.chroma = 3 /\ probe.f.plane = 1
    /\ probe.f.luma = 2 /\ probe.f.depthC = 0
    /\ probe.mi.pix_fmt = "yuv444p10le"

\* C28: the composition time that goes into pts is the 24-bit value read
\* from the tag, sign-extended: ct below 2^23, ct - 2^24 from 2^23 on
C28_CompositionTimeSigned ==
    (probe.fn = "video" /\ probe.done)
       => /\ \E k \in 1..Len(probe.log) : IsData(probe.log[k])
          /\ \A k \in 1..Len(probe.log) :
                probe.log[k].cb \in {"onData", "onTimestamp"}
                   => /\ probe.log[k].dts = probe.timestamp
                      /\ probe.log[k].pts
                            = probe.timestamp
                                 + (IF probe.ct < 8388608 THEN probe.ct
                                    ELSE probe.ct - 16777216)

\* the tag with composition time 0xFFFFFF at timestamp 1000 was handed on
\* with pts 999
C28_Witness ==
    /\ probe.fn = "video" /\ probe.done /\ probe.ct = 16777215
    /\ \E k \in 1..Len(probe.log) : IsData(probe.log[k]) /\ probe.log[k].pts = 999

\* C29: the first AAC or MP3 tag sets audioCodec, audioSampleRate (5500,
\* 11025, 22050, 44100 by soundRate) and audioChannelCount and has the media
\* info dispatched (if onMediaInfo is set and nothing was dispatched yet);
\* no later audio tag, of whatever format, rate or channels, changes the
\* three fields or has the media info dispatched
C29_AudioFieldsSetOnce ==
    \A i \in TagsSeen :
       IsAudio(trace[i])
          => IF IsFirstCodedAudio(i)
             THEN /\ AudioFields(AfterTag(i)._mediaInfo) = AnnouncedAudio(trace[i])
                  /\ (callbacks.onMediaInfo /\ ~trace[i].before._dispatchFlag)
                        => \E k \in TagEvents(i) : IsMediaInfo(trace[k])
             ELSE /\ AudioFields(AfterTag(i)._mediaInfo)
                        = AudioFields(trace[i].before._mediaInfo)
                  /\ \A k \in TagEvents(i) : ~IsMediaInfo(trace[k])

\* an MP3 tag has followed the first AAC tag, which announced other fields
C29_Witness ==
    \E i, j \in TagsSeen :
       /\ i < j /\ IsFirstCodedAudio(i) /\ IsCodedAudio(trace[j])
       /\ AnnouncedAudio(trace[j]) # AnnouncedAudio(trace[i])
       /\ ret.kind = "consumed"

\* C30: a complete audio or video tag is parsed from its payload alone: the
\* bytes handed to onData are the payload behind the header bytes (1 for
\* audio, 5 for AVC video), never a slice of negative length, so that no
\* call fails on a tag unless a callback of the consumer throws
C30_WithinPayload ==
    callbacks.throws = "none"
       => /\ ret.kind # "thrown"
          /\ \A i \in TagsSeen : \A k \in DataEvents(i) :
                \/ IsAudio(trace[i])
                      /\ trace[k].bytes = SubSeq(trace[i].payload, 2, trace[i].dataSize)
                \/ IsVideo(trace[i]) /\ trace[i].dataSize >= 5
                      /\ trace[k].bytes = SubSeq(trace[i].payload, 6, trace[i].dataSize)

\* C31: media segments reach the SourceBuffer in the order in which
\* _onMediaSegment received them: whenever appendBuffer is called with a
\* segment, no segment received before it is waiting in _pendingData
C31_AppendInOrder ==
    \A w \in mse.lastAppend.waiting : w > mse.lastAppend.seg

\* C32: with every successful appendBuffer followed by its updateend, and
\* once no further segment arrives (at most MaxSegments do), the queue
\* drains: _pendingData becomes and stays empty; all along _hasPendingData
\* is true whenever _pendingData is not empty, and _pendingDataSize is the
\* sum of the byteLength of the queued segments
C32_QueueDrains ==
    /\ [](mse._pendingData # <<>> => mse._hasPendingData)
    /\ [](mse._pendingDataSize = PendingBytes)
    /\ <>[](mse._pendingData = <<>>)

\* C10: once videoCodec is "avc" it stays "avc", and once audioCodec is
\* "aac" or "mp3" it does not return to null.
C10_CodecsStay ==
    [][/\ demuxer._mediaInfo.videoCodec = "avc" => demuxer'._mediaInfo.videoCodec = "avc"
       /\ demuxer._mediaInfo.audioCodec # NullStr
             => demuxer'._mediaInfo.audioCodec # NullStr]_vars

C10_Witness ==
    /\ demuxer._mediaInfo.videoCodec = "avc"
    /\ demuxer._mediaInfo.audioCodec = "aac"
    /\ \E i, j, k \in TagsSeen :
          /\ i < j /\ j < k
          /\ IsCodedAudio(trace[i]) /\ IsWholeAvcConfig(trace[j]) /\ trace[k].tagType = 9

====
